---- MODULE Spec2Model ----
(***************************************************************************)
(* The escrow ledgers of contracts/src: AgentEscrow.sol (configurable fees,*)
(* limits and review period, two-phase arbitrator handover) and Escrow.sol *)
(* (fixed constants, ReentrancyGuard, cancel).  One of the two is deployed;*)
(* every external function is one action, evaluated as a function from the *)
(* storage before the call to the storage after it.  A revert restores the *)
(* storage the call started from.                                          *)
(*                                                                         *)
(* Units: amounts are counted in 10^6 base units (one USDC) for AgentEscrow*)
(* and in 10^15 wei (one finney) for Escrow; time is counted in units of   *)
(* four hours.                                                             *)
(*                                                                         *)
(* The marketplace API keeps an index of the escrows in its table tasks;   *)
(* the library route that publishes a task and the two functions that      *)
(* write the index are modelled as functions on that table.                *)
(***************************************************************************)
EXTENDS Integers, Sequences, FiniteSets, TLC

\* ------------------------------------------------------------------ bounds
MaxEscrows == 1
MaxTime == 2
MaxAdminCalls == 1
MaxNominations == 2
Funds == 8000

\* -------------------------------------------------------------- identities
Zero == "0x0"
Self == "this"
Attacker == "attacker"
Addrs == {"arb", "client", "worker", Attacker}
Holders == Addrs \cup {Self}
Tokens == {Zero, "usdc", Attacker}
Ids == 0..MaxEscrows

\* ------------------------------------------------------- program constants
ProtocolFeeBpsInit == 100
DisputeFeeBpsInit == 100
ClientReviewPeriodInit == 1
ArbitrationTimeoutInit == 2
MinEscrowAmountInit == 10
MaxEscrowAmountInit == 5000
MIN_ESCROW == 1
MAX_ESCROW == 5000
REVIEW_TIMEOUT == 1
ARBITER_FEE_BPS == 500
DISPUTE_FEE_BPS == 100
BPS_DENOMINATOR == 10000

\* ------------------------------------------------------------------ inputs
Amounts == {0, 5, 1000, 6000}
Pcts == {0, 49, 50, 100, 101}
Hashes == {"h1"}
FeeInputs == {<<100, 50>>, <<100, 200>>, <<200, 100>>, <<20000, 100>>}
LimitInputs == {<<2000, 5000>>}
TimeoutInputs == {<<2, 2>>}

VARIABLES deployed, now, escrows, balance, arbitrator, pendingArbitrator,
          protocolFeeBps, disputeFeeBps, clientReviewPeriod, arbitrationTimeout,
          minEscrowAmount, maxEscrowAmount, escrowCount, protocolArbiter, owner,
          status, hist, feePaid, disbursed, adminCalls, tasks

vars == <<deployed, now, escrows, balance, arbitrator, pendingArbitrator,
          protocolFeeBps, disputeFeeBps, clientReviewPeriod, arbitrationTimeout,
          minEscrowAmount, maxEscrowAmount, escrowCount, protocolArbiter, owner,
          status, hist, feePaid, disbursed, adminCalls, tasks>>

\* The value of an unwritten mapping slot.
ZeroEscrow ==
  [client |-> Zero, worker |-> Zero, arbiter |-> Zero, token |-> Zero, amount |-> 0,
   deadline |-> 0, criteriaHash |-> Zero, state |-> "Pending", outcome |-> "None",
   completionPct |-> 0, createdAt |-> 0, submittedAt |-> 0, evidenceHash |-> Zero]

\* The storage (and the token ledgers) as one value, so that a call is a function.
St ==
  [escrows |-> escrows, balance |-> balance, arbitrator |-> arbitrator,
   pendingArbitrator |-> pendingArbitrator, protocolFeeBps |-> protocolFeeBps,
   disputeFeeBps |-> disputeFeeBps, clientReviewPeriod |-> clientReviewPeriod,
   arbitrationTimeout |-> arbitrationTimeout, minEscrowAmount |-> minEscrowAmount,
   maxEscrowAmount |-> maxEscrowAmount, escrowCount |-> escrowCount,
   protocolArbiter |-> protocolArbiter, owner |-> owner, status |-> status,
   hist |-> hist, feePaid |-> feePaid, disbursed |-> disbursed]

\* ------------------------------------------------------- call environment
\* What the attacker's contract does during one transaction: at the `at`-th
\* external call of the transaction it re-enters the ledger with `call` (inside
\* try/catch) and then ends the external call by `ret`: it behaves ("ok"), returns
\* false from then on, or reverts.
NoCall == [op |-> "none", id |-> 0, pct |-> 0]
NoEnv == [at |-> 0, call |-> NoCall, ret |-> "ok"]
InnerOpsA == {"acceptEscrow", "submitWork", "release", "dispute", "autoRelease", "resolve"}
InnerOpsE == {"acceptEscrow", "submitWork", "release", "dispute", "resolve", "cancelEscrow", "claimExpiredEscrow"}
InnerOps(d) == IF d = "AgentEscrow" THEN InnerOpsA ELSE InnerOpsE
InnerCalls(d) ==
  [op : InnerOps(d) \ {"resolve"}, id : 0..(MaxEscrows - 1), pct : {0}]
    \cup [op : {"resolve"}, id : 0..(MaxEscrows - 1), pct : {0, 100}]
\* The attacks on a transaction that makes n external calls.
Attacks(d, n) ==
  [at : 1..n, call : InnerCalls(d), ret : {"ok"}]
    \cup [at : 1..n, call : {NoCall}, ret : {"false", "revert"}]

\* A call in progress: storage so far, the revert reason ("" while running), the
\* value the last external call returned, whether some external call reported
\* failure, the external calls made and the re-entrant calls the attacker made.
Ctx(S) ==
  [st |-> S, err |-> "", ok |-> TRUE, failed |-> FALSE, n |-> 0, log |-> <<>>,
   inner |-> <<>>]
Revert(S0, e) ==
  [st |-> S0, err |-> e, ok |-> FALSE, failed |-> FALSE, n |-> 0, log |-> <<>>,
   inner |-> <<>>]
Finish(S0, c) == IF c.err # "" THEN [c EXCEPT !.st = S0] ELSE c

\* ------------------------------------------------------- external calls
\* The asset's ledger after `amount` moved from src to dst.
Move(S, asset, src, dst, amount) ==
  [S EXCEPT !.balance[asset][src] = @ - amount, !.balance[asset][dst] = @ + amount]

\* The attacker's callback: one re-entrant ledger call by the attacker's contract,
\* wrapped in try/catch, so a revert of the inner call leaves the storage as it was.
RECURSIVE Dispatch(_, _)
Callback(c, env) ==
  IF env.call.op = "none" THEN c
  ELSE [c EXCEPT !.st = Dispatch(c.st, env.call).st,
                 !.inner = Append(@, [call |-> env.call,
                                      pre |-> c.st.escrows[env.call.id],
                                      err |-> Dispatch(c.st, env.call).err])]

\* An external call to an honest callee: the funds move, or the call fails for lack
\* of them (a native send returns false, a token reverts).
Honest(c, kind, asset, src, to, amount) ==
  IF c.st.balance[asset][src] >= amount
  THEN [c EXCEPT !.st = Move(c.st, asset, src, to, amount), !.ok = TRUE]
  ELSE IF kind = "send" THEN [c EXCEPT !.ok = FALSE, !.failed = TRUE]
       ELSE [c EXCEPT !.err = "TokenReverted", !.ok = FALSE, !.failed = TRUE]

\* An external call the attacker's contract answers as env says; c is the caller's
\* context and cb the context after the attacker's callback ran.  A native send
\* hands over the value before the callee runs; a failing callee frame undoes it
\* and the callback.  The attacker's token runs its callback, then moves the funds
\* (ret "ok"), returns false without moving them, or reverts.
Attacked(c, cb, kind, asset, src, to, amount, env) ==
  IF kind = "send"
  THEN IF env.ret = "ok" /\ c.st.balance[asset][src] >= amount
       THEN [cb EXCEPT !.ok = TRUE]
       ELSE [c EXCEPT !.ok = FALSE, !.failed = TRUE]
  ELSE CASE env.ret = "revert" ->
              [c EXCEPT !.err = "TokenReverted", !.ok = FALSE, !.failed = TRUE]
         [] env.ret = "false" -> [cb EXCEPT !.ok = FALSE, !.failed = TRUE]
         [] OTHER -> IF cb.st.balance[asset][src] >= amount
                     THEN [cb EXCEPT !.st = Move(cb.st, asset, src, to, amount), !.ok = TRUE]
                     ELSE [c EXCEPT !.err = "TokenReverted", !.ok = FALSE,
                                    !.failed = TRUE]

\* The caller's context once the k-th external call is under way.
Calling(c, kind, to, amount, id) ==
  [c EXCEPT !.n = @ + 1,
            !.log = Append(@, [kind |-> kind, to |-> to, amount |-> amount,
                               seen |-> c.st.escrows[id]])]

\* Whether the attacker's contract misbehaves at the transaction's k-th external
\* call: the callback runs at call `at` alone; once set to fail, the contract keeps
\* returning false for the rest of the transaction.
Hit(env, k) == env.at = k \/ (env.ret = "false" /\ 0 < env.at /\ env.at < k)

\* One external call made by the ledger while it handles escrow id: a native send
\* `to.call{value: amount}("")`, or `token.transfer` / `token.transferFrom`.
ExternalCall(c, kind, token, from, to, amount, env, id) ==
  IF c.err # "" THEN c
  ELSE IF (IF kind = "send" THEN to ELSE token) = Attacker /\ Hit(env, c.n + 1)
       THEN Attacked(Calling(c, kind, to, amount, id),
                     Callback(IF kind = "send"
                              THEN [Calling(c, kind, to, amount, id) EXCEPT
                                      !.st = Move(c.st, Zero, Self, to, amount)]
                              ELSE Calling(c, kind, to, amount, id),
                              env),
                     kind, IF kind = "send" THEN Zero ELSE token,
                     IF kind = "transferFrom" THEN from ELSE Self, to, amount, env)
       ELSE Honest(Calling(c, kind, to, amount, id), kind,
                   IF kind = "send" THEN Zero ELSE token,
                   IF kind = "transferFrom" THEN from ELSE Self, to, amount)

\* msg.value arriving with a call to a payable function.
Receive(S, sender, value) == Move(S, Zero, sender, Self, value)

\* The address a payout goes to, read from storage when the transfer is made.
Payee(S, id, role) ==
  CASE role = "worker" -> S.escrows[id].worker
    [] role = "client" -> S.escrows[id].client
    [] role = "arbiter" -> S.escrows[id].arbiter
    [] OTHER -> S.arbitrator

\* ------------------------------------------------------- AgentEscrow.sol
\* A write of e.state; hist keeps the states the record has been given.
SetState(S, id, s) ==
  [S EXCEPT !.escrows[id].state = s, !.hist[id] = Append(@, s)]

\* The native branch of _transfer: `if (!success) revert TransferFailed()`.
RequireSuccess(r) ==
  IF r.err = "" /\ ~r.ok THEN [r EXCEPT !.err = "TransferFailed"] ELSE r

\* AgentEscrow._transfer: the token branch does not look at what transfer returns.
AE_transfer(c, token, to, amount, env, id) ==
  IF c.err # "" \/ amount = 0 THEN c
  ELSE IF token = Zero
       THEN RequireSuccess(ExternalCall(c, "send", token, Self, to, amount, env, id))
       ELSE ExternalCall(c, "transfer", token, Self, to, amount, env, id)

\* _transfer(e.token, <payee>, amount) under `if (cond)`.
AE_pay(cond, c, id, role, amount, env) ==
  IF cond
  THEN AE_transfer(c, c.st.escrows[id].token, Payee(c.st, id, role), amount, env, id)
  ELSE c

\* The end of createEscrow: the record is written once custody was taken.
WriteRecord(S, c, id, rec) ==
  IF c.err # "" THEN Finish(S, c)
  ELSE [c EXCEPT !.st = [c.st EXCEPT !.escrows[id] = rec, !.hist[id] = <<"Pending">>]]

\* createEscrow without the increment of escrowCount.
createEscrow_sameCount(S, sender, token, amount, deadline, criteriaHash, value, env) ==
  IF amount < S.minEscrowAmount \/ amount > S.maxEscrowAmount THEN Revert(S, "InvalidAmount")
  ELSE IF deadline <= now THEN Revert(S, "DeadlinePassed")
  ELSE IF token = Zero /\ value # amount THEN Revert(S, "InvalidAmount")
  ELSE WriteRecord(S,
         IF token = Zero
         THEN Ctx(Receive(S, sender, value))
         ELSE ExternalCall(Ctx(Receive(S, sender, value)),
                           "transferFrom", token, sender, Self, amount, env, S.escrowCount),
         S.escrowCount,
         [client |-> sender, worker |-> Zero, arbiter |-> Zero, token |-> token,
          amount |-> amount, deadline |-> deadline, criteriaHash |-> criteriaHash,
          state |-> "Pending", outcome |-> "None", completionPct |-> 0,
          createdAt |-> now, submittedAt |-> 0, evidenceHash |-> Zero])

createEscrow(S, sender, token, amount, deadline, criteriaHash, value, env) ==
  IF amount < S.minEscrowAmount \/ amount > S.maxEscrowAmount THEN Revert(S, "InvalidAmount")
  ELSE IF deadline <= now THEN Revert(S, "DeadlinePassed")
  ELSE IF token = Zero /\ value # amount THEN Revert(S, "InvalidAmount")
  ELSE WriteRecord(S,
         IF token = Zero
         THEN Ctx([Receive(S, sender, value) EXCEPT !.escrowCount = @ + 1])
         ELSE ExternalCall(Ctx([Receive(S, sender, value) EXCEPT !.escrowCount = @ + 1]),
                           "transferFrom", token, sender, Self, amount, env, S.escrowCount),
         S.escrowCount,
         [client |-> sender, worker |-> Zero, arbiter |-> Zero, token |-> token,
          amount |-> amount, deadline |-> deadline, criteriaHash |-> criteriaHash,
          state |-> "Pending", outcome |-> "None", completionPct |-> 0,
          createdAt |-> now, submittedAt |-> 0, evidenceHash |-> Zero])

\* acceptEscrow without its inState(Pending) modifier.
acceptEscrow_anyState(S, id, sender) ==
  LET e == S.escrows[id]
  IN IF now >= e.deadline THEN Revert(S, "DeadlinePassed")
     ELSE Ctx(SetState([S EXCEPT !.escrows[id].worker = sender], id, "Active"))

\* acceptEscrow that writes the caller into the client field.
acceptEscrow_writesClient(S, id, sender) ==
  LET e == S.escrows[id]
  IN IF e.state # "Pending" THEN Revert(S, "InvalidState")
     ELSE IF now >= e.deadline THEN Revert(S, "DeadlinePassed")
     ELSE Ctx(SetState([S EXCEPT !.escrows[id].client = sender], id, "Active"))

acceptEscrow(S, id, sender) ==
  LET e == S.escrows[id]
  IN IF e.state # "Pending" THEN Revert(S, "InvalidState")
     ELSE IF now >= e.deadline THEN Revert(S, "DeadlinePassed")
     ELSE Ctx(SetState([S EXCEPT !.escrows[id].worker = sender], id, "Active"))

\* submitWork without its inState(Active) modifier.
submitWork_anyState(S, id, sender, evidenceHash) ==
  LET e == S.escrows[id]
  IN IF sender # e.worker THEN Revert(S, "OnlyWorker")
     ELSE Ctx(SetState([S EXCEPT !.escrows[id].evidenceHash = evidenceHash,
                                 !.escrows[id].submittedAt = now], id, "Submitted"))

\* submitWork without its onlyWorker modifier.
submitWork_anyCaller(S, id, sender, evidenceHash) ==
  LET e == S.escrows[id]
  IN IF e.state # "Active" THEN Revert(S, "InvalidState")
     ELSE Ctx(SetState([S EXCEPT !.escrows[id].evidenceHash = evidenceHash,
                                 !.escrows[id].submittedAt = now], id, "Submitted"))

submitWork(S, id, sender, evidenceHash) ==
  LET e == S.escrows[id]
  IN IF sender # e.worker THEN Revert(S, "OnlyWorker")
     ELSE IF e.state # "Active" THEN Revert(S, "InvalidState")
     ELSE Ctx(SetState([S EXCEPT !.escrows[id].evidenceHash = evidenceHash,
                                 !.escrows[id].submittedAt = now], id, "Submitted"))

\* A settlement that records Partial whatever the outcome.
Settle_alwaysPartial(S, id, outcome, completionPct) ==
  [SetState(S, id, "Resolved") EXCEPT !.escrows[id].outcome = "Partial",
                                      !.escrows[id].completionPct = completionPct,
                                      !.disbursed[id] = @ + 1]

\* The record of a settled escrow.
Settle(S, id, outcome, completionPct) ==
  [SetState(S, id, "Resolved") EXCEPT !.escrows[id].outcome = outcome,
                                      !.escrows[id].completionPct = completionPct,
                                      !.disbursed[id] = @ + 1]

\* The body of release after its checks.
PayWorker(S, id, env) ==
  LET e == S.escrows[id]
      protocolFee == (e.amount * S.protocolFeeBps) \div 10000
      workerAmount == e.amount - protocolFee
  IN IF protocolFee > e.amount THEN Revert(S, "Panic")
     ELSE Finish(S,
            AE_pay(TRUE,
                   AE_pay(TRUE, Ctx(Settle(S, id, "FullRelease", 100)),
                          id, "worker", workerAmount, env),
                   id, "arbitrator", protocolFee, env))

release(S, id, sender, env) ==
  LET e == S.escrows[id]
  IN IF sender # e.client THEN Revert(S, "OnlyClient")
     ELSE IF e.state # "Submitted" THEN Revert(S, "InvalidState")
     ELSE PayWorker(S, id, env)

\* The end of dispute: the state is written once the fee was pulled; feePaid keeps
\* what the pull collected.
WriteDisputed(S, c, id, got) ==
  IF c.err # "" THEN Finish(S, c)
  ELSE [c EXCEPT !.st = [SetState(c.st, id, "Disputed") EXCEPT
                           !.feePaid[id] = IF c.ok THEN got ELSE 0]]

\* dispute demanding the fee at the rate the ledger was deployed with, whatever
\* setFees has set since.
dispute_deployedRate(S, id, sender, value, env) ==
  LET e == S.escrows[id]
      disputeFee == (e.amount * DisputeFeeBpsInit) \div 10000
  IN IF sender # e.client THEN Revert(S, "OnlyClient")
     ELSE IF e.state # "Submitted" THEN Revert(S, "InvalidState")
     ELSE IF e.token = Zero /\ value # disputeFee THEN Revert(S, "InvalidAmount")
     ELSE WriteDisputed(S,
            IF e.token = Zero THEN Ctx(Receive(S, sender, value))
            ELSE ExternalCall(Ctx(Receive(S, sender, value)), "transferFrom", e.token,
                              sender, Self, disputeFee, env, id),
            id, disputeFee)

dispute(S, id, sender, value, env) ==
  LET e == S.escrows[id]
      disputeFee == (e.amount * S.disputeFeeBps) \div 10000
  IN IF sender # e.client THEN Revert(S, "OnlyClient")
     ELSE IF e.state # "Submitted" THEN Revert(S, "InvalidState")
     ELSE IF e.token = Zero /\ value # disputeFee THEN Revert(S, "InvalidAmount")
     ELSE WriteDisputed(S,
            IF e.token = Zero THEN Ctx(Receive(S, sender, value))
            ELSE ExternalCall(Ctx(Receive(S, sender, value)), "transferFrom", e.token,
                              sender, Self, disputeFee, env, id),
            id, disputeFee)

\* autoRelease paying the worker the whole amount, without the protocol fee.
autoRelease_noFee(S, id, sender, env) ==
  LET e == S.escrows[id]
  IN IF e.state # "Submitted" THEN Revert(S, "InvalidState")
     ELSE IF now < e.submittedAt + S.clientReviewPeriod THEN Revert(S, "ReviewPeriodActive")
     ELSE Finish(S, AE_pay(TRUE, Ctx(Settle(S, id, "FullRelease", 100)),
                           id, "worker", e.amount, env))

\* autoRelease that also releases a Disputed escrow once arbitrationTimeout has
\* passed since the submission.
autoRelease_disputed(S, id, sender, env) ==
  LET e == S.escrows[id]
      protocolFee == (e.amount * S.protocolFeeBps) \div 10000
      workerAmount == e.amount - protocolFee
  IN IF e.state \notin {"Submitted", "Disputed"} THEN Revert(S, "InvalidState")
     ELSE IF now < e.submittedAt
                     + (IF e.state = "Disputed" THEN S.arbitrationTimeout
                        ELSE S.clientReviewPeriod)
          THEN Revert(S, "ReviewPeriodActive")
     ELSE IF protocolFee > e.amount THEN Revert(S, "Panic")
     ELSE Finish(S,
            AE_pay(TRUE,
                   AE_pay(TRUE, Ctx(Settle(S, id, "FullRelease", 100)),
                          id, "worker", workerAmount, env),
                   id, "arbitrator", protocolFee, env))

autoRelease(S, id, sender, env) ==
  LET e == S.escrows[id]
      protocolFee == (e.amount * S.protocolFeeBps) \div 10000
      workerAmount == e.amount - protocolFee
  IN IF e.state # "Submitted" THEN Revert(S, "InvalidState")
     ELSE IF now < e.submittedAt + S.clientReviewPeriod THEN Revert(S, "ReviewPeriodActive")
     ELSE IF protocolFee > e.amount THEN Revert(S, "Panic")
     ELSE Finish(S,
            AE_pay(TRUE,
                   AE_pay(TRUE, Ctx(Settle(S, id, "FullRelease", 100)),
                          id, "worker", workerAmount, env),
                   id, "arbitrator", protocolFee, env))

\* resolve without the check of completionPct.
resolve_anyPct(S, id, sender, completionPct, env) ==
  LET e == S.escrows[id]
      protocolFee == (e.amount * S.protocolFeeBps) \div 10000
      distributable == e.amount - protocolFee
      workerAmount == (distributable * completionPct) \div 100
      clientRefund == distributable - workerAmount
      outcome == IF completionPct = 100 THEN "FullRelease"
                 ELSE IF completionPct = 0 THEN "FullRefund" ELSE "Partial"
      disputeFee == (e.amount * S.disputeFeeBps) \div 10000
  IN IF sender # S.arbitrator THEN Revert(S, "OnlyArbitrator")
     ELSE IF e.state # "Disputed" THEN Revert(S, "InvalidState")
     ELSE IF protocolFee > e.amount \/ workerAmount > distributable THEN Revert(S, "Panic")
     ELSE Finish(S,
            AE_pay(TRUE,
              AE_pay(TRUE,
                AE_pay(clientRefund > 0,
                  AE_pay(workerAmount > 0, Ctx(Settle(S, id, outcome, completionPct)),
                         id, "worker", workerAmount, env),
                  id, "client", clientRefund, env),
                id, IF completionPct >= 50 THEN "worker" ELSE "client", disputeFee, env),
              id, "arbitrator", protocolFee, env))

\* resolve with the worker's share rounded up instead of down.
resolve_roundUp(S, id, sender, completionPct, env) ==
  LET e == S.escrows[id]
      protocolFee == (e.amount * S.protocolFeeBps) \div 10000
      distributable == e.amount - protocolFee
      workerAmount == (distributable * completionPct + 99) \div 100
      clientRefund == distributable - workerAmount
      outcome == IF completionPct = 100 THEN "FullRelease"
                 ELSE IF completionPct = 0 THEN "FullRefund" ELSE "Partial"
      disputeFee == (e.amount * S.disputeFeeBps) \div 10000
  IN IF sender # S.arbitrator THEN Revert(S, "OnlyArbitrator")
     ELSE IF e.state # "Disputed" THEN Revert(S, "InvalidState")
     ELSE IF completionPct > 100 THEN Revert(S, "InvalidAmount")
     ELSE IF protocolFee > e.amount THEN Revert(S, "Panic")
     ELSE Finish(S,
            AE_pay(TRUE,
              AE_pay(TRUE,
                AE_pay(clientRefund > 0,
                  AE_pay(workerAmount > 0, Ctx(Settle(S, id, outcome, completionPct)),
                         id, "worker", workerAmount, env),
                  id, "client", clientRefund, env),
                id, IF completionPct >= 50 THEN "worker" ELSE "client", disputeFee, env),
              id, "arbitrator", protocolFee, env))

resolve(S, id, sender, completionPct, env) ==
  LET e == S.escrows[id]
      protocolFee == (e.amount * S.protocolFeeBps) \div 10000
      distributable == e.amount - protocolFee
      workerAmount == (distributable * completionPct) \div 100
      clientRefund == distributable - workerAmount
      outcome == IF completionPct = 100 THEN "FullRelease"
                 ELSE IF completionPct = 0 THEN "FullRefund" ELSE "Partial"
      disputeFee == (e.amount * S.disputeFeeBps) \div 10000
  IN IF sender # S.arbitrator THEN Revert(S, "OnlyArbitrator")
     ELSE IF e.state # "Disputed" THEN Revert(S, "InvalidState")
     ELSE IF completionPct > 100 THEN Revert(S, "InvalidAmount")
     ELSE IF protocolFee > e.amount THEN Revert(S, "Panic")
     ELSE Finish(S,
            AE_pay(TRUE,
              AE_pay(TRUE,
                AE_pay(clientRefund > 0,
                  AE_pay(workerAmount > 0, Ctx(Settle(S, id, outcome, completionPct)),
                         id, "worker", workerAmount, env),
                  id, "client", clientRefund, env),
                id, IF completionPct >= 50 THEN "worker" ELSE "client", disputeFee, env),
              id, "arbitrator", protocolFee, env))

initiateArbitratorTransfer(S, sender, newArbitrator) ==
  IF sender # S.arbitrator THEN Revert(S, "OnlyArbitrator")
  ELSE Ctx([S EXCEPT !.pendingArbitrator = newArbitrator])

\* acceptArbitratorTransfer that leaves the nomination in place.
acceptArbitratorTransfer_keepsNomination(S, sender) ==
  IF sender # S.pendingArbitrator THEN Revert(S, "OnlyArbitrator")
  ELSE Ctx([S EXCEPT !.arbitrator = S.pendingArbitrator])

acceptArbitratorTransfer(S, sender) ==
  IF sender # S.pendingArbitrator THEN Revert(S, "OnlyArbitrator")
  ELSE Ctx([S EXCEPT !.arbitrator = S.pendingArbitrator, !.pendingArbitrator = Zero])

\* setFees without onlyArbitrator.
setFees_anyCaller(S, sender, pFee, dFee) ==
  Ctx([S EXCEPT !.protocolFeeBps = pFee, !.disputeFeeBps = dFee])

setFees(S, sender, pFee, dFee) ==
  IF sender # S.arbitrator THEN Revert(S, "OnlyArbitrator")
  ELSE Ctx([S EXCEPT !.protocolFeeBps = pFee, !.disputeFeeBps = dFee])

setLimits(S, sender, min, max) ==
  IF sender # S.arbitrator THEN Revert(S, "OnlyArbitrator")
  ELSE Ctx([S EXCEPT !.minEscrowAmount = min, !.maxEscrowAmount = max])

setTimeouts(S, sender, reviewPeriod, arbTimeout) ==
  IF sender # S.arbitrator THEN Revert(S, "OnlyArbitrator")
  ELSE Ctx([S EXCEPT !.clientReviewPeriod = reviewPeriod, !.arbitrationTimeout = arbTimeout])

\* ------------------------------------------------------------ Escrow.sol
\* ReentrancyGuard.nonReentrant around a function whose body yields c.
nonReentrant(S, c) ==
  IF S.status = "Entered" THEN Revert(S, "ReentrancyGuardReentrantCall")
  ELSE IF c.err # "" THEN [c EXCEPT !.st = S]
  ELSE [c EXCEPT !.st.status = "NotEntered"]

Enter(S) == [S EXCEPT !.status = "Entered"]

\* `if (!success) revert TransferFailed()` after a send or a token call.
E_requireSuccess(r) ==
  IF r.err = "" /\ ~r.ok THEN [r EXCEPT !.err = "TransferFailed"] ELSE r

\* Escrow._transferFunds
E_transferFunds(c, token, to, amount, env, id) ==
  IF c.err # "" THEN c
  ELSE E_requireSuccess(ExternalCall(c, IF token = Zero THEN "send" ELSE "transfer",
                                     token, Self, to, amount, env, id))

\* _transferFunds(escrow.token, <payee>, amount) under `if (cond)`.
E_pay(cond, c, id, role, amount, env) ==
  IF cond
  THEN E_transferFunds(c, c.st.escrows[id].token, Payee(c.st, id, role), amount, env, id)
  ELSE c

\* The end of both create functions: the id is drawn and the record written.
E_writeRecord(c, sender, worker, token, amount, deadline, criteriaHash) ==
  IF c.err # "" THEN c
  ELSE [c EXCEPT !.st = [c.st EXCEPT
          !.escrowCount = @ + 1,
          !.escrows[c.st.escrowCount] =
             [client |-> sender, worker |-> worker, arbiter |-> c.st.protocolArbiter,
              token |-> token, amount |-> amount, deadline |-> deadline,
              criteriaHash |-> criteriaHash, state |-> "Pending", outcome |-> "None",
              completionPct |-> 0, createdAt |-> now, submittedAt |-> 0,
              evidenceHash |-> Zero],
          !.hist[c.st.escrowCount] = <<"Pending">>]]

E_createEscrow(S, sender, worker, deadline, criteriaHash, value) ==
  nonReentrant(S,
    IF value < MIN_ESCROW \/ value > MAX_ESCROW THEN Revert(S, "InvalidAmount")
    ELSE IF worker = Zero \/ worker = sender THEN Revert(S, "InvalidWorker")
    ELSE IF deadline <= now THEN Revert(S, "InvalidDeadline")
    ELSE E_writeRecord(Ctx(Receive(Enter(S), sender, value)), sender, worker, Zero, value,
                       deadline, criteriaHash))

createEscrowERC20(S, sender, worker, token, amount, deadline, criteriaHash, env) ==
  nonReentrant(S,
    IF amount = 0 THEN Revert(S, "InvalidAmount")
    ELSE IF worker = Zero \/ worker = sender THEN Revert(S, "InvalidWorker")
    ELSE IF deadline <= now THEN Revert(S, "InvalidDeadline")
    ELSE E_writeRecord(
           E_requireSuccess(ExternalCall(Ctx(Enter(S)), "transferFrom", token, sender, Self,
                                         amount, env, S.escrowCount)),
           sender, worker, token, amount, deadline, criteriaHash))

E_acceptEscrow(S, id, sender) ==
  LET e == S.escrows[id]
  IN IF e.client = Zero THEN Revert(S, "EscrowNotFound")
     ELSE IF e.state # "Pending" THEN Revert(S, "InvalidState")
     ELSE IF sender # e.worker THEN Revert(S, "NotAuthorized")
     ELSE IF now > e.deadline THEN Revert(S, "DeadlinePassed")
     ELSE Ctx(SetState(S, id, "Active"))

submitDeliverable(S, id, sender, evidenceHash) ==
  LET e == S.escrows[id]
  IN IF e.client = Zero THEN Revert(S, "EscrowNotFound")
     ELSE IF e.state # "Active" THEN Revert(S, "InvalidState")
     ELSE IF sender # e.worker THEN Revert(S, "NotAuthorized")
     ELSE Ctx([SetState([S EXCEPT !.escrows[id].evidenceHash = evidenceHash], id, "Submitted")
                 EXCEPT !.escrows[id].submittedAt = now])

\* escrow.state = <terminal> in a function that then pays out.
E_settle(S, id, s) == [SetState(Enter(S), id, s) EXCEPT !.disbursed[id] = @ + 1]

releasePayment(S, id, sender, env) ==
  nonReentrant(S,
    LET e == S.escrows[id]
    IN IF e.client = Zero THEN Revert(S, "EscrowNotFound")
       ELSE IF e.state # "Submitted" THEN Revert(S, "InvalidState")
       ELSE IF sender # e.client THEN Revert(S, "NotAuthorized")
       ELSE E_pay(TRUE, Ctx(E_settle(S, id, "Resolved")), id, "worker", e.amount, env))

E_dispute(S, id, sender) ==
  LET e == S.escrows[id]
  IN IF e.client = Zero THEN Revert(S, "EscrowNotFound")
     ELSE IF e.state # "Submitted" THEN Revert(S, "InvalidState")
     ELSE IF sender # e.client THEN Revert(S, "NotAuthorized")
     ELSE IF now > e.submittedAt + REVIEW_TIMEOUT THEN Revert(S, "ReviewPeriodActive")
     ELSE Ctx(SetState(S, id, "Disputed"))

\* resolveDispute that takes the fee at DISPUTE_FEE_BPS.
resolveDispute_disputeRate(S, id, sender, workerPct, env) ==
  nonReentrant(S,
    LET e == S.escrows[id]
        arbiterFee == (e.amount * DISPUTE_FEE_BPS) \div BPS_DENOMINATOR
        remaining == e.amount - arbiterFee
        workerAmount == (remaining * workerPct) \div 100
        clientAmount == remaining - workerAmount
    IN IF sender # S.protocolArbiter THEN Revert(S, "NotAuthorized")
       ELSE IF e.client = Zero THEN Revert(S, "EscrowNotFound")
       ELSE IF e.state # "Disputed" THEN Revert(S, "InvalidState")
       ELSE IF workerPct > 100 THEN Revert(S, "InvalidPercentage")
       ELSE E_pay(clientAmount > 0,
              E_pay(workerAmount > 0,
                E_pay(arbiterFee > 0, Ctx(E_settle(S, id, "Resolved")),
                      id, "arbiter", arbiterFee, env),
                id, "worker", workerAmount, env),
              id, "client", clientAmount, env))

resolveDispute(S, id, sender, workerPct, env) ==
  nonReentrant(S,
    LET e == S.escrows[id]
        arbiterFee == (e.amount * ARBITER_FEE_BPS) \div BPS_DENOMINATOR
        remaining == e.amount - arbiterFee
        workerAmount == (remaining * workerPct) \div 100
        clientAmount == remaining - workerAmount
    IN IF sender # S.protocolArbiter THEN Revert(S, "NotAuthorized")
       ELSE IF e.client = Zero THEN Revert(S, "EscrowNotFound")
       ELSE IF e.state # "Disputed" THEN Revert(S, "InvalidState")
       ELSE IF workerPct > 100 THEN Revert(S, "InvalidPercentage")
       ELSE E_pay(clientAmount > 0,
              E_pay(workerAmount > 0,
                E_pay(arbiterFee > 0, Ctx(E_settle(S, id, "Resolved")),
                      id, "arbiter", arbiterFee, env),
                id, "worker", workerAmount, env),
              id, "client", clientAmount, env))

cancelEscrow(S, id, sender, env) ==
  nonReentrant(S,
    LET e == S.escrows[id]
    IN IF e.client = Zero THEN Revert(S, "EscrowNotFound")
       ELSE IF e.state # "Pending" THEN Revert(S, "InvalidState")
       ELSE IF sender # e.client THEN Revert(S, "NotAuthorized")
       ELSE E_pay(TRUE, Ctx(E_settle(S, id, "Cancelled")), id, "client", e.amount, env))

claimExpiredEscrow(S, id, sender, env) ==
  nonReentrant(S,
    LET e == S.escrows[id]
    IN IF e.client = Zero THEN Revert(S, "EscrowNotFound")
       ELSE IF e.state # "Submitted" THEN Revert(S, "InvalidState")
       ELSE IF sender # e.worker THEN Revert(S, "NotAuthorized")
       ELSE IF now <= e.submittedAt + REVIEW_TIMEOUT THEN Revert(S, "ReviewPeriodActive")
       ELSE E_pay(TRUE, Ctx(E_settle(S, id, "Resolved")), id, "worker", e.amount, env))

setProtocolArbiter(S, sender, newArbiter) ==
  IF sender # S.owner THEN Revert(S, "NotAuthorized")
  ELSE Ctx([S EXCEPT !.protocolArbiter = newArbiter])

transferOwnership(S, sender, newOwner) ==
  IF sender # S.owner THEN Revert(S, "NotAuthorized")
  ELSE Ctx([S EXCEPT !.owner = newOwner])

\* ---------------------------------------------------------------- dispatch
\* A ledger call made by the attacker's contract from inside its callback.  The
\* inner call runs undisturbed: a transaction holds at most one re-entrant call.
Dispatch(S, call) ==
  IF deployed = "AgentEscrow"
  THEN CASE call.op = "acceptEscrow" -> acceptEscrow(S, call.id, Attacker)
         [] call.op = "submitWork" -> submitWork(S, call.id, Attacker, "h1")
         [] call.op = "release" -> release(S, call.id, Attacker, NoEnv)
         [] call.op = "dispute" -> dispute(S, call.id, Attacker, 0, NoEnv)
         [] call.op = "autoRelease" -> autoRelease(S, call.id, Attacker, NoEnv)
         [] call.op = "resolve" -> resolve(S, call.id, Attacker, call.pct, NoEnv)
         [] OTHER -> Revert(S, "NoSuchFunction")
  ELSE CASE call.op = "acceptEscrow" -> E_acceptEscrow(S, call.id, Attacker)
         [] call.op = "submitWork" -> submitDeliverable(S, call.id, Attacker, "h1")
         [] call.op = "release" -> releasePayment(S, call.id, Attacker, NoEnv)
         [] call.op = "dispute" -> E_dispute(S, call.id, Attacker)
         [] call.op = "resolve" -> resolveDispute(S, call.id, Attacker, call.pct, NoEnv)
         [] call.op = "cancelEscrow" -> cancelEscrow(S, call.id, Attacker, NoEnv)
         [] call.op = "claimExpiredEscrow" ->
              claimExpiredEscrow(S, call.id, Attacker, NoEnv)
         [] OTHER -> Revert(S, "NoSuchFunction")

\* ------------------------------------------------------------------ inputs
Creators == {"client"}
Acceptors == {"worker", "client", Attacker}
Nominees == {"worker", Attacker}
DeadlineOffsets == {0, 1}

\* The attacker's contract is called by the ledger only where it is the token or,
\* for the native asset, a payee; elsewhere an attack has no effect.
Involved(S, id) ==
  \/ S.escrows[id].token = Attacker
  \/ /\ S.escrows[id].token = Zero
     /\ Attacker \in {S.escrows[id].client, S.escrows[id].worker, S.escrows[id].arbiter,
                      S.arbitrator}

\* ----------------------------------------------------------------- actions
Commit(S) ==
  /\ escrows' = S.escrows
  /\ balance' = S.balance
  /\ arbitrator' = S.arbitrator
  /\ pendingArbitrator' = S.pendingArbitrator
  /\ protocolFeeBps' = S.protocolFeeBps
  /\ disputeFeeBps' = S.disputeFeeBps
  /\ clientReviewPeriod' = S.clientReviewPeriod
  /\ arbitrationTimeout' = S.arbitrationTimeout
  /\ minEscrowAmount' = S.minEscrowAmount
  /\ maxEscrowAmount' = S.maxEscrowAmount
  /\ escrowCount' = S.escrowCount
  /\ protocolArbiter' = S.protocolArbiter
  /\ owner' = S.owner
  /\ status' = S.status
  /\ hist' = S.hist
  /\ feePaid' = S.feePaid
  /\ disbursed' = S.disbursed
  /\ UNCHANGED <<deployed, now, tasks>>

\* A transaction that did not revert takes effect.
Done(r) == r.err = "" /\ Commit(r.st) /\ UNCHANGED adminCalls

\* The same for a configuration call, of which a run makes at most MaxAdminCalls.
AdminDone(r) ==
  /\ adminCalls < MaxAdminCalls
  /\ r.err = ""
  /\ Commit(r.st)
  /\ adminCalls' = adminCalls + 1

\* The ways a transaction that makes n external calls can run: undisturbed, or
\* with one attack by the attacker's contract when the ledger calls it.
EnvsFor(involved, n) == {NoEnv} \cup (IF involved THEN Attacks(deployed, n) ELSE {})

\* ------------------------------------------------------- the tasks table
\* SQL NULL, and undefined in the route.
Null == "null"

\* The escrow ids and the addresses the index may hold; addresses come from the
\* chain in mixed case.
TaskIds == {"e1", "e2"}
TaskClients == {"0xAb"}
TaskWorkers == {Null, "0xCd"}
TaskStates == {"Active", "Disputed", "Resolved"}
Licenses == {"public-domain", "attribution", "non-commercial"}

\* String.prototype.toLowerCase on the addresses in use.
ToLowerCase(s) ==
  CASE s \in {"0xAb", "0xAB", "0xab"} -> "0xab"
    [] s \in {"0xCd", "0xCD", "0xcd"} -> "0xcd"
    [] s \in {"0xEf", "0xef"} -> "0xef"
    [] OTHER -> s

\* A row of tasks, with the columns the library reads and writes; present is
\* FALSE for an escrow_id that has no row.
NoTask ==
  [present |-> FALSE, client |-> Null, worker |-> Null, state |-> Null,
   description |-> Null, is_public |-> FALSE, license |-> Null,
   deliverable_summary |-> Null, made_public_at |-> Null]

NoTasks == [i \in TaskIds |-> NoTask]

\* INSERT ... ON CONFLICT(escrow_id) DO UPDATE of upsertTask.
upsertTask(T, id, client, worker, state, description) ==
  IF ~T[id].present
  THEN [T EXCEPT ![id] = [NoTask EXCEPT !.present = TRUE, !.client = client,
                                        !.worker = worker, !.state = state,
                                        !.description = description]]
  ELSE [T EXCEPT ![id].worker = worker, ![id].state = state,
                 ![id].description = IF description # Null THEN description ELSE @]

\* updateTaskState: the worker is written only when one is passed.
updateTaskState(T, id, state, worker) ==
  IF ~T[id].present THEN T
  ELSE IF worker # Null THEN [T EXCEPT ![id].state = state, ![id].worker = worker]
  ELSE [T EXCEPT ![id].state = state]

\* A response of the route, with the table it leaves.
Reply(T, code, error) == [tasks |-> T, code |-> code, error |-> error]

\* The route without the check of is_public.
publish_again(T, id, from, license, summary, t) ==
  IF from = Null THEN Reply(T, 400, "Missing from address")
  ELSE IF license \notin Licenses THEN Reply(T, 400, "Invalid license")
  ELSE IF ~T[id].present THEN Reply(T, 404, "Task not found")
  ELSE IF T[id].state # "Resolved"
       THEN Reply(T, 400, "Task must be completed before publishing")
  ELSE IF /\ (T[id].client = Null \/ ToLowerCase(T[id].client) # ToLowerCase(from))
          /\ (T[id].worker = Null \/ ToLowerCase(T[id].worker) # ToLowerCase(from))
       THEN Reply(T, 403, "Only client or worker can publish")
  ELSE Reply([T EXCEPT ![id].is_public = TRUE, ![id].license = license,
                       ![id].deliverable_summary =
                          IF summary # Null THEN summary ELSE T[id].description,
                       ![id].made_public_at = t],
             200, "")

\* POST /:escrowId/publish at time t.
publish(T, id, from, license, summary, t) ==
  IF from = Null THEN Reply(T, 400, "Missing from address")
  ELSE IF license \notin Licenses THEN Reply(T, 400, "Invalid license")
  ELSE IF ~T[id].present THEN Reply(T, 404, "Task not found")
  ELSE IF T[id].state # "Resolved"
       THEN Reply(T, 400, "Task must be completed before publishing")
  ELSE IF /\ (T[id].client = Null \/ ToLowerCase(T[id].client) # ToLowerCase(from))
          /\ (T[id].worker = Null \/ ToLowerCase(T[id].worker) # ToLowerCase(from))
       THEN Reply(T, 403, "Only client or worker can publish")
  ELSE IF T[id].is_public THEN Reply(T, 400, "Already published")
  ELSE Reply([T EXCEPT ![id].is_public = TRUE, ![id].license = license,
                       ![id].deliverable_summary =
                          IF summary # Null THEN summary ELSE T[id].description,
                       ![id].made_public_at = t],
             200, "")

Init ==
  /\ deployed \in {"AgentEscrow", "Escrow"}
  /\ now = 0
  /\ escrows = [i \in Ids |-> ZeroEscrow]
  /\ balance = [a \in Tokens |-> [h \in Holders |-> IF h = Self THEN 0 ELSE Funds]]
  /\ arbitrator = IF deployed = "AgentEscrow" THEN "arb" ELSE Zero
  /\ pendingArbitrator = Zero
  /\ protocolFeeBps = ProtocolFeeBpsInit
  /\ disputeFeeBps = DisputeFeeBpsInit
  /\ clientReviewPeriod = ClientReviewPeriodInit
  /\ arbitrationTimeout = ArbitrationTimeoutInit
  /\ minEscrowAmount = MinEscrowAmountInit
  /\ maxEscrowAmount = MaxEscrowAmountInit
  /\ escrowCount = 0
  /\ protocolArbiter = IF deployed = "Escrow" THEN "arb" ELSE Zero
  /\ owner = IF deployed = "Escrow" THEN "arb" ELSE Zero
  /\ status = "NotEntered"
  /\ hist = [i \in Ids |-> <<>>]
  /\ feePaid = [i \in Ids |-> 0]
  /\ disbursed = [i \in Ids |-> 0]
  /\ adminCalls = 0
  /\ tasks = NoTasks

Tick ==
  /\ now < MaxTime
  /\ now' = now + 1
  /\ UNCHANGED <<deployed, escrows, balance, arbitrator, pendingArbitrator, protocolFeeBps,
                 disputeFeeBps, clientReviewPeriod, arbitrationTimeout, minEscrowAmount,
                 maxEscrowAmount, escrowCount, protocolArbiter, owner, status, hist,
                 feePaid, disbursed, adminCalls, tasks>>

CreateEscrow ==
  /\ deployed = "AgentEscrow"
  /\ escrowCount < MaxEscrows
  /\ \E sender \in Creators, token \in Tokens, amount \in Amounts, d \in DeadlineOffsets :
       \E value \in IF token = Zero THEN {0, amount} ELSE {0} :
         /\ value <= balance[Zero][sender]
         /\ \E env \in EnvsFor(token = Attacker, createEscrow(St, sender, token, amount, now + d, "h1", value, NoEnv).n) :
           Done(createEscrow(St, sender, token, amount, now + d, "h1", value, env))

AcceptEscrow ==
  /\ deployed = "AgentEscrow"
  /\ \E id \in Ids, sender \in Acceptors : Done(acceptEscrow(St, id, sender))

SubmitWork ==
  /\ deployed = "AgentEscrow"
  /\ \E id \in Ids, sender \in Addrs, h \in Hashes : Done(submitWork(St, id, sender, h))

Release ==
  /\ deployed = "AgentEscrow"
  /\ \E id \in Ids, sender \in Addrs :
       \E env \in EnvsFor(Involved(St, id), release(St, id, sender, NoEnv).n) :
           Done(release(St, id, sender, env))

\* msg.value offered with dispute: nothing, or the fee now due.
DisputeValues(id) ==
  IF escrows[id].token = Zero THEN {0, (escrows[id].amount * disputeFeeBps) \div 10000} ELSE {0}

Dispute ==
  /\ deployed = "AgentEscrow"
  /\ \E id \in Ids, sender \in Addrs :
       \E value \in DisputeValues(id) :
         /\ value <= balance[Zero][sender]
         /\ \E env \in EnvsFor(Involved(St, id), dispute(St, id, sender, value, NoEnv).n) :
           Done(dispute(St, id, sender, value, env))

AutoRelease ==
  /\ deployed = "AgentEscrow"
  /\ \E id \in Ids, sender \in Addrs :
       \E env \in EnvsFor(Involved(St, id), autoRelease(St, id, sender, NoEnv).n) :
           Done(autoRelease(St, id, sender, env))

Resolve ==
  /\ deployed = "AgentEscrow"
  /\ \E id \in Ids, sender \in Addrs, pct \in Pcts :
       \E env \in EnvsFor(Involved(St, id), resolve(St, id, sender, pct, NoEnv).n) :
           Done(resolve(St, id, sender, pct, env))

InitiateArbitratorTransfer ==
  /\ deployed = "AgentEscrow"
  /\ \E sender \in Addrs, n \in Nominees : AdminDone(initiateArbitratorTransfer(St, sender, n))

AcceptArbitratorTransfer ==
  /\ deployed = "AgentEscrow"
  /\ \E sender \in Addrs : Done(acceptArbitratorTransfer(St, sender))

SetFees ==
  /\ deployed = "AgentEscrow"
  /\ \E sender \in Addrs, f \in FeeInputs : AdminDone(setFees(St, sender, f[1], f[2]))

SetLimits ==
  /\ deployed = "AgentEscrow"
  /\ \E sender \in Addrs, l \in LimitInputs : AdminDone(setLimits(St, sender, l[1], l[2]))

SetTimeouts ==
  /\ deployed = "AgentEscrow"
  /\ \E sender \in Addrs, t \in TimeoutInputs : AdminDone(setTimeouts(St, sender, t[1], t[2]))

E_CreateEscrow ==
  /\ deployed = "Escrow"
  /\ escrowCount < MaxEscrows
  /\ \E sender \in Creators, worker \in Acceptors \cup {Zero}, d \in DeadlineOffsets :
       \E value \in Amounts :
         /\ value <= balance[Zero][sender]
         /\ Done(E_createEscrow(St, sender, worker, now + d, "h1", value))

CreateEscrowERC20 ==
  /\ deployed = "Escrow"
  /\ escrowCount < MaxEscrows
  /\ \E sender \in Creators, worker \in Acceptors \cup {Zero}, d \in DeadlineOffsets :
       \E token \in Tokens \ {Zero}, amount \in Amounts :
         \E env \in EnvsFor(token = Attacker, createEscrowERC20(St, sender, worker, token, amount, now + d, "h1", NoEnv).n) :
           Done(createEscrowERC20(St, sender, worker, token, amount, now + d, "h1", env))

E_AcceptEscrow ==
  /\ deployed = "Escrow"
  /\ \E id \in Ids, sender \in Addrs : Done(E_acceptEscrow(St, id, sender))

SubmitDeliverable ==
  /\ deployed = "Escrow"
  /\ \E id \in Ids, sender \in Addrs, h \in Hashes : Done(submitDeliverable(St, id, sender, h))

ReleasePayment ==
  /\ deployed = "Escrow"
  /\ \E id \in Ids, sender \in Addrs :
       \E env \in EnvsFor(Involved(St, id), releasePayment(St, id, sender, NoEnv).n) :
           Done(releasePayment(St, id, sender, env))

E_Dispute ==
  /\ deployed = "Escrow"
  /\ \E id \in Ids, sender \in Addrs : Done(E_dispute(St, id, sender))

ResolveDispute ==
  /\ deployed = "Escrow"
  /\ \E id \in Ids, sender \in Addrs, pct \in Pcts :
       \E env \in EnvsFor(Involved(St, id), resolveDispute(St, id, sender, pct, NoEnv).n) :
           Done(resolveDispute(St, id, sender, pct, env))

CancelEscrow ==
  /\ deployed = "Escrow"
  /\ \E id \in Ids, sender \in Addrs :
       \E env \in EnvsFor(Involved(St, id), cancelEscrow(St, id, sender, NoEnv).n) :
           Done(cancelEscrow(St, id, sender, env))

ClaimExpiredEscrow ==
  /\ deployed = "Escrow"
  /\ \E id \in Ids, sender \in Addrs :
       \E env \in EnvsFor(Involved(St, id), claimExpiredEscrow(St, id, sender, NoEnv).n) :
           Done(claimExpiredEscrow(St, id, sender, env))

SetProtocolArbiter ==
  /\ deployed = "Escrow"
  /\ \E sender \in Addrs, n \in Nominees : AdminDone(setProtocolArbiter(St, sender, n))

TransferOwnership ==
  /\ deployed = "Escrow"
  /\ \E sender \in Addrs, n \in Nominees : AdminDone(transferOwnership(St, sender, n))

Next ==
  \/ Tick
  \/ CreateEscrow
  \/ AcceptEscrow
  \/ SubmitWork
  \/ Release
  \/ Dispute
  \/ AutoRelease
  \/ Resolve
  \/ InitiateArbitratorTransfer
  \/ AcceptArbitratorTransfer
  \/ SetFees
  \/ SetLimits
  \/ SetTimeouts
  \/ E_CreateEscrow
  \/ CreateEscrowERC20
  \/ E_AcceptEscrow
  \/ SubmitDeliverable
  \/ ReleasePayment
  \/ E_Dispute
  \/ ResolveDispute
  \/ CancelEscrow
  \/ ClaimExpiredEscrow
  \/ SetProtocolArbiter
  \/ TransferOwnership

Spec == Init /\ [][Next]_vars

\* ------------------------------------------------------------- properties
\* What the ledger holds of an asset.
Custody(S, asset) == S.balance[asset][Self]

\* The completion percentages resolve accepts.
ValidPcts == {p \in Pcts : p <= 100}

\* Whether sequence s is a prefix of sequence t.
IsPrefix(s, t) == Len(s) <= Len(t) /\ \A i \in 1..Len(s) : s[i] = t[i]

\* The life cycles an escrow record may go through.
Lifecycles ==
  {<<"Pending", "Active", "Submitted", "Resolved">>,
   <<"Pending", "Active", "Submitted", "Disputed", "Resolved">>,
   <<"Pending", "Cancelled">>}

Terminal == {"Resolved", "Cancelled"}

\* C1 (conservation on resolution): whenever AgentEscrow.resolve succeeds on a
\* Disputed escrow, for any completionPct in 0..100 and after any sequence of
\* operations and configuration changes, what leaves the ledger is exactly the
\* escrow amount plus the dispute fee that was collected when the dispute was raised.
\* Stated for escrows in the native asset or an honest token.
C1_ResolveConserves ==
  deployed = "AgentEscrow" =>
    \A id \in Ids, pct \in ValidPcts :
      (escrows[id].state = "Disputed" /\ escrows[id].token # Attacker
         /\ resolve(St, id, arbitrator, pct, NoEnv).err = "")
      => Custody(St, escrows[id].token)
           - Custody(resolve(St, id, arbitrator, pct, NoEnv).st, escrows[id].token)
         = escrows[id].amount + feePaid[id]

\* C2 (monotonic state): the sequence of states written to any escrow record is a
\* prefix of Pending, Active, Submitted, Resolved, or of Pending, Active, Submitted,
\* Disputed, Resolved, or of Pending, Cancelled.
C2_MonotonicState ==
  \A id \in Ids : \E p \in Lifecycles : IsPrefix(hist[id], p)

\* C3 (terminal immutability): once a record has been Resolved or Cancelled, no
\* later call changes it: a terminal state is the last state the record is given.
C3_TerminalIsLast ==
  \A id \in Ids : \A i \in 1..Len(hist[id]) :
    hist[id][i] \in Terminal => i = Len(hist[id])

\* C4 (single disbursement under races): whatever calls are issued on an escrow, at
\* most one successful operation pays the escrowed amount out.
C4_SingleDisbursement ==
  \A id \in Ids : disbursed[id] <= 1

\* The values a caller can attach to dispute.
AffordableValues(id, sender) == {v \in DisputeValues(id) : v <= balance[Zero][sender]}

\* The ways a payout operation (release, autoRelease, resolve; releasePayment,
\* cancelEscrow, claimExpiredEscrow, resolveDispute) can run on escrow id in the
\* current state, attacks included.
PayoutRuns(id) ==
  UNION {
    IF deployed = "AgentEscrow"
    THEN {release(St, id, sender, env) :
            env \in EnvsFor(Involved(St, id), release(St, id, sender, NoEnv).n)}
         \cup {autoRelease(St, id, sender, env) :
            env \in EnvsFor(Involved(St, id), autoRelease(St, id, sender, NoEnv).n)}
         \cup UNION {{resolve(St, id, sender, pct, env) :
            env \in EnvsFor(Involved(St, id), resolve(St, id, sender, pct, NoEnv).n)}
              : pct \in Pcts}
    ELSE {releasePayment(St, id, sender, env) :
            env \in EnvsFor(Involved(St, id), releasePayment(St, id, sender, NoEnv).n)}
         \cup {cancelEscrow(St, id, sender, env) :
            env \in EnvsFor(Involved(St, id), cancelEscrow(St, id, sender, NoEnv).n)}
         \cup {claimExpiredEscrow(St, id, sender, env) :
            env \in EnvsFor(Involved(St, id), claimExpiredEscrow(St, id, sender, NoEnv).n)}
         \cup UNION {{resolveDispute(St, id, sender, pct, env) :
            env \in EnvsFor(Involved(St, id), resolveDispute(St, id, sender, pct, NoEnv).n)}
              : pct \in Pcts}
    : sender \in Addrs}

\* The ways an operation that pulls funds (dispute on escrow id, or the create that
\* would make escrow id; createEscrowERC20) can run in the current state, attacks
\* included.
PullRuns(id) ==
  IF deployed = "AgentEscrow"
  THEN UNION {UNION {{dispute(St, id, sender, value, env) :
                 env \in EnvsFor(Involved(St, id), dispute(St, id, sender, value, NoEnv).n)}
                   : value \in AffordableValues(id, sender)} : sender \in Addrs}
       \cup (IF id = escrowCount /\ escrowCount < MaxEscrows
             THEN UNION {{createEscrow(St, "client", token, amount, now + 1, "h1", 0, env) :
                            env \in EnvsFor(token = Attacker, 1)}
                         : token \in Tokens \ {Zero}, amount \in Amounts}
             ELSE {})
  ELSE IF id = escrowCount /\ escrowCount < MaxEscrows
       THEN UNION {{createEscrowERC20(St, "client", "worker", token, amount, now + 1, "h1",
                                      env) : env \in EnvsFor(token = Attacker, 1)}
                   : token \in Tokens \ {Zero}, amount \in Amounts}
       ELSE {}

\* An unauthorized call: it reverts with the authorization error e, nothing changed.
Denied(r, e) == r = Revert(St, e)

\* The re-entrant calls of a run were held to the same authorization.
InnerAuthorized(r, id) ==
  \A k \in DOMAIN r.inner :
    /\ (r.inner[k].call.op \in {"release", "dispute"} /\ r.inner[k].pre.client # Attacker)
         => r.inner[k].err = "OnlyClient"
    /\ (r.inner[k].call.op = "submitWork" /\ r.inner[k].pre.worker # Attacker)
         => r.inner[k].err = "OnlyWorker"
    /\ (r.inner[k].call.op = "resolve" /\ arbitrator # Attacker)
         => r.inner[k].err = "OnlyArbitrator"

\* A call that failed and changed nothing.
Failed(r) == r.err # "" /\ r.st = St

\* The same rule in Escrow.sol, whose functions test the record's existence and
\* state before the caller: a caller without the role fails, nothing changed.
E_Authorization ==
  \A id \in Ids, sender \in Addrs :
    /\ sender # escrows[id].client =>
         /\ Failed(releasePayment(St, id, sender, NoEnv))
         /\ Failed(E_dispute(St, id, sender))
    /\ sender # escrows[id].worker =>
         \A h \in Hashes : Failed(submitDeliverable(St, id, sender, h))
    /\ sender # protocolArbiter =>
         \A pct \in Pcts :
           resolveDispute(St, id, sender, pct, NoEnv) = Revert(St, "NotAuthorized")

\* C5 (authorization enforcement): in AgentEscrow release and dispute by anyone but
\* the escrow's client revert with OnlyClient, submitWork by anyone but its worker
\* with OnlyWorker, resolve by anyone but the current arbitrator with
\* OnlyArbitrator, each leaving the record and every balance as they were; the
\* same holds for calls made from inside a callback.  In Escrow.sol the
\* corresponding calls by a caller without the role fail and change nothing.
C5_Authorization ==
  IF deployed = "Escrow" THEN E_Authorization
  ELSE
    /\ \A id \in Ids, sender \in Addrs :
         /\ sender # escrows[id].client =>
              /\ \A env \in EnvsFor(Involved(St, id), 1) :
                   Denied(release(St, id, sender, env), "OnlyClient")
              /\ \A value \in AffordableValues(id, sender) :
                   \A env \in EnvsFor(Involved(St, id), 1) :
                     Denied(dispute(St, id, sender, value, env), "OnlyClient")
         /\ sender # escrows[id].worker =>
              \A h \in Hashes : Denied(submitWork(St, id, sender, h), "OnlyWorker")
         /\ sender # arbitrator =>
              \A pct \in Pcts : \A env \in EnvsFor(Involved(St, id), 1) :
                Denied(resolve(St, id, sender, pct, env), "OnlyArbitrator")
    /\ \A id \in Ids : \A r \in PayoutRuns(id) \cup PullRuns(id) : InnerAuthorized(r, id)

\* C5 witness: the arbitrator role has been handed over, a dispute is open, the
\* former arbitrator is refused and the current one can resolve.
C5_Witness ==
  /\ deployed = "AgentEscrow"
  /\ arbitrator # "arb"
  /\ \E id \in Ids :
       /\ escrows[id].state = "Disputed"
       /\ resolve(St, id, "arb", 50, NoEnv).err = "OnlyArbitrator"
       /\ resolve(St, id, arbitrator, 50, NoEnv).err = ""
       /\ release(St, id, escrows[id].worker, NoEnv).err = "OnlyClient"

\* Every external call of the run saw the record as the run left it.
EffectsFirst(r, id) ==
  r.err = "" => \A k \in DOMAIN r.log : r.log[k].seen = r.st.escrows[id]

\* C6 (checks-effects-interactions): in every operation that makes an external
\* asset call, pulls of funds included, the record is in its post-transition state
\* when the external call is made.  Stated for undisturbed runs.
C6_EffectsBeforeInteractions ==
  \A id \in Ids, sender \in Addrs :
    IF deployed = "AgentEscrow"
    THEN /\ EffectsFirst(release(St, id, sender, NoEnv), id)
         /\ EffectsFirst(autoRelease(St, id, sender, NoEnv), id)
         /\ \A pct \in Pcts : EffectsFirst(resolve(St, id, sender, pct, NoEnv), id)
         /\ EffectsFirst(dispute(St, id, sender, 0, NoEnv), id)
         /\ (escrowCount < MaxEscrows /\ id = escrowCount) =>
              EffectsFirst(createEscrow(St, sender, "usdc", 1000, now + 1, "h1", 0, NoEnv), id)
    ELSE /\ EffectsFirst(releasePayment(St, id, sender, NoEnv), id)
         /\ EffectsFirst(cancelEscrow(St, id, sender, NoEnv), id)
         /\ EffectsFirst(claimExpiredEscrow(St, id, sender, NoEnv), id)
         /\ \A pct \in Pcts :
              EffectsFirst(resolveDispute(St, id, sender, pct, NoEnv), id)
         /\ (escrowCount < MaxEscrows /\ id = escrowCount) =>
              EffectsFirst(createEscrowERC20(St, sender, "worker", "usdc", 1000, now + 1,
                                             "h1", NoEnv), id)

\* Every re-entrant call the attacker made on the escrow during the run failed.
InnerAllFail(r, id) ==
  r.err = "" => \A k \in DOMAIN r.inner : r.inner[k].call.id = id => r.inner[k].err # ""

\* C7 (reentrancy protection): while an external transfer issued by an operation on
\* an escrow is outstanding, every re-entrant ledger call on that escrow made from
\* the recipient's or the token's callback fails.
C7_ReentrantCallsFail ==
  \A id \in Ids : \A r \in PayoutRuns(id) \cup PullRuns(id) : InnerAllFail(r, id)

\* A run in which an external call reported failure reverted as a whole.
RolledBack(r, id) ==
  r.failed => r.err \in {"TransferFailed", "TokenReverted"} /\ r.st = St

\* C8 (atomic transfer failure): if a transfer attempted by a payout operation is
\* rejected (the native send fails, or the token returns false) the operation
\* reverts and the storage and every balance are as before the call.
C8_TransferFailureAtomic ==
  \A id \in Ids : \A r \in PayoutRuns(id) : RolledBack(r, id)

\* C9 (create custodies funds atomically): whenever a Pending record exists, the
\* ledger holds at least the recorded amount of the record's asset.
C9_PendingIsFunded ==
  \A id \in Ids :
    (escrows[id].client # Zero /\ escrows[id].state = "Pending")
      => Custody(St, escrows[id].token) >= escrows[id].amount

\* A create call that must be refused: it reverts with error e, nothing changed.
Refused(r, e) == r.err = e /\ r.st = St

\* C10 (create validation): for every asset kind, create with an amount below the
\* minimum or above the maximum in force reverts with InvalidAmount, taking no funds
\* and creating no record; so under Escrow.sol, whose limits are constants, no
\* record holds an amount outside them.
C10_AmountRangeEnforced ==
  IF deployed = "AgentEscrow"
  THEN escrowCount < MaxEscrows =>
         \A sender \in Creators, token \in Tokens, amount \in Amounts :
           (amount < minEscrowAmount \/ amount > maxEscrowAmount) =>
             Refused(createEscrow(St, sender, token, amount, now + 1, "h1",
                                  IF token = Zero THEN amount ELSE 0, NoEnv),
                     "InvalidAmount")
  ELSE \A id \in Ids :
         escrows[id].client # Zero =>
           (MIN_ESCROW <= escrows[id].amount /\ escrows[id].amount <= MAX_ESCROW)

\* What a call that ended in storage S paid `who` in `asset`.
Paid(S, asset, who) == S.balance[asset][who] - balance[asset][who]

\* floor(amount * protocolFeeBps / 10000) at the rate now in force.
ProtocolFeeNow(id) == (escrows[id].amount * protocolFeeBps) \div 10000

\* The asset's ledger after the ledger paid the worker amount - fee and the
\* arbitrator the fee.
ReleasedLedger(id) ==
  Move(Move(St, escrows[id].token, Self, escrows[id].worker,
            escrows[id].amount - ProtocolFeeNow(id)),
       escrows[id].token, Self, arbitrator, ProtocolFeeNow(id)).balance[escrows[id].token]

\* The record of a released escrow.
ReleasedRecord(id) ==
  [escrows[id] EXCEPT !.state = "Resolved", !.outcome = "FullRelease", !.completionPct = 100]

\* C11 (approve payout): every successful AgentEscrow.release by the client on a
\* Submitted escrow moves exactly amount - protocolFee to the worker and exactly
\* protocolFee = floor(amount * protocolFeeBps / 10000) to the arbitrator, pays the
\* client nothing, and leaves the record Resolved, FullRelease, completionPct 100.
C11_ReleasePayout ==
  deployed = "AgentEscrow" =>
    \A id \in Ids :
      escrows[id].state = "Submitted" =>
        \A env \in EnvsFor(Involved(St, id), 2) :
          release(St, id, escrows[id].client, env).err = "" =>
            /\ release(St, id, escrows[id].client, env).st.escrows[id] = ReleasedRecord(id)
            /\ release(St, id, escrows[id].client, env).st.balance[escrows[id].token]
                 = ReleasedLedger(id)
            /\ Paid(release(St, id, escrows[id].client, env).st, escrows[id].token,
                    escrows[id].client) = 0

\* The instant from which autoRelease is open: submittedAt + clientReviewPeriod.
ReviewEnd(id) == escrows[id].submittedAt + clientReviewPeriod

\* C12 (timeout release): on a Submitted escrow AgentEscrow.autoRelease reverts
\* with ReviewPeriodActive whenever now < submittedAt + clientReviewPeriod, and
\* succeeds whenever now >= submittedAt + clientReviewPeriod, equality included,
\* whoever calls it.  Stated for escrows in the native asset or an honest token,
\* with payees that accept the payment.
C12_TimeoutRelease ==
  deployed = "AgentEscrow" =>
    \A id \in Ids, sender \in Addrs :
      (escrows[id].state = "Submitted" /\ escrows[id].token # Attacker) =>
        IF now < ReviewEnd(id)
        THEN autoRelease(St, id, sender, NoEnv) = Revert(St, "ReviewPeriodActive")
        ELSE autoRelease(St, id, sender, NoEnv).err = ""

\* The external calls a run made: kind, payee and amount of each, in order.
Transfers(r) ==
  [k \in DOMAIN r.log |-> [kind |-> r.log[k].kind, to |-> r.log[k].to,
                           amount |-> r.log[k].amount]]

\* The transfers of a release in the escrow's asset: amount - fee to the worker,
\* then the fee to the arbitrator.
ReleaseTransfers(id) ==
  <<[kind |-> IF escrows[id].token = Zero THEN "send" ELSE "transfer",
     to |-> escrows[id].worker, amount |-> escrows[id].amount - ProtocolFeeNow(id)],
    [kind |-> IF escrows[id].token = Zero THEN "send" ELSE "transfer",
     to |-> arbitrator, amount |-> ProtocolFeeNow(id)]>>

\* C13 (forceRelease is equivalent to approve): started from the same Submitted
\* escrow and the same configuration, a successful autoRelease by any caller and a
\* successful release by the client end in the same storage after the same
\* external calls, the record Resolved, FullRelease, completionPct 100 and the
\* calls amount - protocolFee to the worker and protocolFee to the arbitrator.  In
\* Escrow.sol, which charges no protocol fee, a successful claimExpiredEscrow and a
\* successful releasePayment likewise end in the same storage after the same call.
C13_AutoReleaseAsRelease ==
  \A id \in Ids :
    escrows[id].state = "Submitted" =>
      \A env \in EnvsFor(Involved(St, id), 2) :
        IF deployed = "AgentEscrow"
        THEN \A sender \in Addrs :
               (release(St, id, escrows[id].client, env).err = ""
                  /\ autoRelease(St, id, sender, env).err = "")
               => /\ autoRelease(St, id, sender, env) = release(St, id, escrows[id].client, env)
                  /\ autoRelease(St, id, sender, env).st.escrows[id] = ReleasedRecord(id)
                  /\ Transfers(autoRelease(St, id, sender, env)) = ReleaseTransfers(id)
        ELSE (releasePayment(St, id, escrows[id].client, env).err = ""
                /\ claimExpiredEscrow(St, id, escrows[id].worker, env).err = "")
             => claimExpiredEscrow(St, id, escrows[id].worker, env)
                  = releasePayment(St, id, escrows[id].client, env)

\* C13 witness: a Submitted escrow whose review period is over, on which release by
\* the client and autoRelease by a third party both succeed and a fee is charged.
C13_Witness ==
  /\ deployed = "AgentEscrow"
  /\ \E id \in Ids :
       /\ escrows[id].state = "Submitted"
       /\ now >= ReviewEnd(id)
       /\ ProtocolFeeNow(id) > 0
       /\ escrows[id].client # escrows[id].worker
       /\ release(St, id, escrows[id].client, NoEnv).err = ""
       /\ autoRelease(St, id, Attacker, NoEnv).err = ""
       /\ Paid(autoRelease(St, id, Attacker, NoEnv).st, escrows[id].token, escrows[id].worker)
            = escrows[id].amount - ProtocolFeeNow(id)

\* floor(amount * disputeFeeBps / 10000) at the rate now in force.
DisputeFeeNow(id) == (escrows[id].amount * disputeFeeBps) \div 10000

\* The end of the review window of escrow id in the deployed contract.
WindowEnd(id) ==
  escrows[id].submittedAt
    + (IF deployed = "AgentEscrow" THEN clientReviewPeriod ELSE REVIEW_TIMEOUT)

\* dispute called by the escrow's client with the fee now due.
DisputeByClient(id) ==
  IF deployed = "AgentEscrow"
  THEN dispute(St, id, escrows[id].client,
               IF escrows[id].token = Zero THEN DisputeFeeNow(id) ELSE 0, NoEnv)
  ELSE E_dispute(St, id, escrows[id].client)

\* The timeout release called by sender.
ForceRelease(id, sender) ==
  IF deployed = "AgentEscrow" THEN autoRelease(St, id, sender, NoEnv)
  ELSE claimExpiredEscrow(St, id, sender, NoEnv)

\* C14 (dispute window): dispute by the client on a Submitted escrow succeeds only
\* while now < submittedAt + review window; from that instant on it fails and the
\* escrow stays Submitted, so dispute and the timeout release are never both
\* enabled for the same escrow.
C14_DisputeWindow ==
  \A id \in Ids :
    escrows[id].state = "Submitted" =>
      /\ now >= WindowEnd(id) =>
           /\ DisputeByClient(id).err # ""
           /\ DisputeByClient(id).st.escrows[id].state = "Submitted"
      /\ \A sender \in Addrs :
           ~(DisputeByClient(id).err = "" /\ ForceRelease(id, sender).err = "")

\* The values a client may attach to dispute: nothing, the fee due, or one more.
OfferedFees(id) ==
  {v \in {0, DisputeFeeNow(id), DisputeFeeNow(id) + 1} :
     v <= balance[Zero][escrows[id].client]}

\* C15 (dispute fee exactness): AgentEscrow.dispute by the client moves a Submitted
\* escrow to Disputed only if the client pays exactly disputeFee = floor(amount *
\* disputeFeeBps / 10000) in the escrow's asset: a native payment of another amount
\* reverts with InvalidAmount and changes nothing, and on success the client's
\* balance of the asset has decreased, and the ledger's custody increased, by
\* exactly disputeFee.
C15_DisputeFeeExact ==
  deployed = "AgentEscrow" =>
    \A id \in Ids :
      escrows[id].state = "Submitted" =>
        \A value \in OfferedFees(id) :
          \A env \in EnvsFor(Involved(St, id), 1) :
            /\ (escrows[id].token = Zero /\ value # DisputeFeeNow(id)) =>
                 dispute(St, id, escrows[id].client, value, env) = Revert(St, "InvalidAmount")
            /\ dispute(St, id, escrows[id].client, value, env).err = "" =>
                 /\ Paid(dispute(St, id, escrows[id].client, value, env).st,
                         escrows[id].token, escrows[id].client) = 0 - DisputeFeeNow(id)
                 /\ Paid(dispute(St, id, escrows[id].client, value, env).st,
                         escrows[id].token, Self) = DisputeFeeNow(id)

\* The worker's share of a resolution at pct: floor((amount - fee) * pct / 100).
WorkerShare(id, pct) == ((escrows[id].amount - ProtocolFeeNow(id)) * pct) \div 100

\* The party the dispute fee is awarded to at pct.
Awardee(id, pct) == IF pct >= 50 THEN escrows[id].worker ELSE escrows[id].client

\* The asset's ledger after a resolution at pct that pays the worker's share, the
\* client's refund, the dispute fee `fee` to the awardee and the protocol fee to
\* the arbitrator.
ResolvedLedger(id, pct, fee) ==
  Move(Move(Move(Move(St, escrows[id].token, Self, escrows[id].worker, WorkerShare(id, pct)),
                 escrows[id].token, Self, escrows[id].client,
                 escrows[id].amount - ProtocolFeeNow(id) - WorkerShare(id, pct)),
            escrows[id].token, Self, Awardee(id, pct), fee),
       escrows[id].token, Self, arbitrator, ProtocolFeeNow(id)).balance[escrows[id].token]

\* C16 (dispute-fee tie-break): on every successful AgentEscrow.resolve the whole
\* dispute fee collected when the dispute was raised goes to the worker when
\* completionPct >= 50 (50 included) and to the client when completionPct < 50,
\* besides the split of the amount; none of it stays with the ledger or goes to the
\* arbitrator.  Stated for escrows in the native asset or an honest token.
C16_DisputeFeeTieBreak ==
  deployed = "AgentEscrow" =>
    \A id \in Ids, pct \in ValidPcts :
      (escrows[id].state = "Disputed" /\ escrows[id].token # Attacker
         /\ resolve(St, id, arbitrator, pct, NoEnv).err = "")
      => resolve(St, id, arbitrator, pct, NoEnv).st.balance[escrows[id].token]
           = ResolvedLedger(id, pct, feePaid[id])

\* ------------------------------------------------ the split, input by input
\* The amounts, protocol fee rates and completion percentages the split is
\* computed for: amounts within the default limits, rates up to and beyond 100%.
SplitAmounts == {10, 99, 999, 1000, 1234, 5000}
SplitRates == {0, 1, 100, 333, 9999, 10000, 20000}
SplitPcts == 0..100

\* A Disputed escrow of the given asset and amount, as create, accept, submit and
\* dispute leave it.
DisputedRecord(token, amount) ==
  [client |-> "client", worker |-> "worker", arbiter |-> Zero, token |-> token,
   amount |-> amount, deadline |-> 1, criteriaHash |-> "h1", state |-> "Disputed",
   outcome |-> "None", completionPct |-> 0, createdAt |-> 0, submittedAt |-> 0,
   evidenceHash |-> "h1"]

\* AgentEscrow holding one Disputed escrow whose amount and dispute fee the client
\* paid in, at some protocol fee rate.
InitSplit ==
  /\ deployed = "AgentEscrow"
  /\ now = 1
  /\ protocolFeeBps \in SplitRates
  /\ disputeFeeBps = DisputeFeeBpsInit
  /\ \E token \in {Zero, "usdc"}, amount \in SplitAmounts :
       /\ escrows = [i \in Ids |-> IF i = 0 THEN DisputedRecord(token, amount) ELSE ZeroEscrow]
       /\ feePaid = [i \in Ids |-> IF i = 0 THEN (amount * DisputeFeeBpsInit) \div 10000 ELSE 0]
       /\ balance = [a \in Tokens |-> [h \in Holders |->
            IF a # token THEN (IF h = Self THEN 0 ELSE Funds)
            ELSE IF h = Self THEN amount + (amount * DisputeFeeBpsInit) \div 10000
            ELSE IF h = "client"
                 THEN Funds - amount - (amount * DisputeFeeBpsInit) \div 10000
                 ELSE Funds]]
  /\ arbitrator = "arb"
  /\ pendingArbitrator = Zero
  /\ clientReviewPeriod = ClientReviewPeriodInit
  /\ arbitrationTimeout = ArbitrationTimeoutInit
  /\ minEscrowAmount = MinEscrowAmountInit
  /\ maxEscrowAmount = MaxEscrowAmountInit
  /\ escrowCount = 1
  /\ protocolArbiter = Zero
  /\ owner = Zero
  /\ status = "NotEntered"
  /\ hist = [i \in Ids |-> IF i = 0 THEN <<"Pending", "Active", "Submitted", "Disputed">>
                           ELSE <<>>]
  /\ disbursed = [i \in Ids |-> 0]
  /\ adminCalls = 0
  /\ tasks = NoTasks

\* The arbitrator resolves the escrow at some percentage.
ResolveSplit ==
  /\ escrows[0].state = "Disputed"
  /\ \E pct \in SplitPcts : Done(resolve(St, 0, arbitrator, pct, NoEnv))

NextSplit == ResolveSplit

SpecSplit == InitSplit /\ [][NextSplit]_vars

\* What the arbitrator, the worker and the client hold more of the escrow's asset
\* than before the resolution, the dispute fee award left aside.
FeeGot == balance[escrows[0].token]["arb"] - Funds
WorkerGot ==
  balance[escrows[0].token]["worker"] - Funds
    - (IF escrows[0].completionPct >= 50 THEN feePaid[0] ELSE 0)
ClientGot ==
  balance[escrows[0].token]["client"] - (Funds - escrows[0].amount - feePaid[0])
    - (IF escrows[0].completionPct >= 50 THEN 0 ELSE feePaid[0])

\* C17 (split arithmetic): after every successful resolve, for every amount,
\* protocol fee rate and completionPct in 0..100, the arbitrator got protocolFee =
\* floor(amount * protocolFeeBps / 10000), the worker floor((amount - protocolFee)
\* * completionPct / 100) and the client the rest of amount - protocolFee: no
\* truncation rounds up, the client absorbs the remainder, and the three add up
\* to the amount exactly; 1000 at 100 bps and 70% gives 693, 297 and 10.
C17_SplitArithmetic ==
  escrows[0].state = "Resolved" =>
    /\ FeeGot * 10000 <= escrows[0].amount * protocolFeeBps
    /\ escrows[0].amount * protocolFeeBps < (FeeGot + 1) * 10000
    /\ WorkerGot * 100 <= (escrows[0].amount - FeeGot) * escrows[0].completionPct
    /\ (escrows[0].amount - FeeGot) * escrows[0].completionPct < (WorkerGot + 1) * 100
    /\ ClientGot = escrows[0].amount - FeeGot - WorkerGot
    /\ WorkerGot >= 0 /\ ClientGot >= 0 /\ FeeGot >= 0
    /\ WorkerGot + ClientGot + FeeGot = escrows[0].amount
    /\ (escrows[0].amount = 1000 /\ protocolFeeBps = 100 /\ escrows[0].completionPct = 70)
         => (WorkerGot = 693 /\ ClientGot = 297 /\ FeeGot = 10)

\* C17 witness: a resolution in which both divisions truncated: the fee and the
\* worker's share were rounded down and the client was paid the remainder.
C17_Witness ==
  /\ escrows[0].state = "Resolved"
  /\ (escrows[0].amount * protocolFeeBps) % 10000 # 0
  /\ ((escrows[0].amount - FeeGot) * escrows[0].completionPct) % 100 # 0
  /\ WorkerGot > 0
  /\ ClientGot > 0
  /\ FeeGot > 0
  /\ WorkerGot + ClientGot + FeeGot = escrows[0].amount

\* The outcome that goes with a completion percentage.
OutcomeOf(pct) ==
  CASE pct = 100 -> "FullRelease"
    [] pct = 0 -> "FullRefund"
    [] OTHER -> "Partial"

\* C18 (outcome of resolve): after a successful AgentEscrow.resolve(id, pct) the
\* record is otherwise unchanged and has state Resolved, completionPct = pct and
\* outcome FullRelease if pct = 100, FullRefund if pct = 0, Partial for every pct
\* in 1..99; for 0, 49, 50 and 100 also whatever the token or a payee does
\* meanwhile.  In Escrow.sol, whose record has no outcome, a successful
\* resolveDispute leaves it Resolved.
C18_ResolveOutcome ==
  \A id \in Ids :
    escrows[id].state = "Disputed" =>
      \A pct \in SplitPcts :
        \A env \in IF pct \in ValidPcts THEN EnvsFor(Involved(St, id), 4) ELSE {NoEnv} :
          IF deployed = "AgentEscrow"
          THEN resolve(St, id, arbitrator, pct, env).err = "" =>
                 resolve(St, id, arbitrator, pct, env).st.escrows[id]
                   = [escrows[id] EXCEPT !.state = "Resolved", !.outcome = OutcomeOf(pct),
                                         !.completionPct = pct]
          ELSE resolveDispute(St, id, protocolArbiter, pct, env).err = "" =>
                 resolveDispute(St, id, protocolArbiter, pct, env).st.escrows[id]
                   = [escrows[id] EXCEPT !.state = "Resolved"]

\* C18 witness: a dispute has been resolved at a percentage strictly between 0 and
\* 100 and the record says Partial.
C18_Witness ==
  /\ deployed = "AgentEscrow"
  /\ \E id \in Ids :
       /\ hist[id] = <<"Pending", "Active", "Submitted", "Disputed", "Resolved">>
       /\ escrows[id].state = "Resolved"
       /\ escrows[id].completionPct = 49
       /\ escrows[id].outcome = "Partial"

\* Percentages a uint8 can carry beyond 100.
OverPcts == {101, 255}

\* C19 (percentage range): resolve by the arbitrator on a Disputed escrow with
\* completionPct > 100 reverts with InvalidAmount (InvalidPercentage in
\* Escrow.sol): the record stays as it was, Disputed and without a new outcome,
\* and no funds move; no completionPct in 0..100 is refused by that check.
C19_PercentageRange ==
  \A id \in Ids :
    escrows[id].state = "Disputed" =>
      IF deployed = "AgentEscrow"
      THEN /\ \A pct \in OverPcts : \A env \in EnvsFor(Involved(St, id), 4) :
                resolve(St, id, arbitrator, pct, env) = Revert(St, "InvalidAmount")
           /\ \A pct \in SplitPcts :
                resolve(St, id, arbitrator, pct, NoEnv).err # "InvalidAmount"
      ELSE /\ \A pct \in OverPcts : \A env \in EnvsFor(Involved(St, id), 3) :
                resolveDispute(St, id, protocolArbiter, pct, env)
                  = Revert(St, "InvalidPercentage")
           /\ \A pct \in SplitPcts :
                resolveDispute(St, id, protocolArbiter, pct, NoEnv).err # "InvalidPercentage"

\* C19 witness: a Disputed escrow on which the arbitrator's resolve is refused at
\* 101 and goes through at 100 and at 0.
C19_Witness ==
  /\ deployed = "AgentEscrow"
  /\ \E id \in Ids :
       /\ escrows[id].state = "Disputed"
       /\ escrows[id].outcome = "None"
       /\ resolve(St, id, arbitrator, 101, NoEnv).err = "InvalidAmount"
       /\ resolve(St, id, arbitrator, 101, NoEnv).st = St
       /\ resolve(St, id, arbitrator, 100, NoEnv).err = ""
       /\ resolve(St, id, arbitrator, 0, NoEnv).err = ""

\* C20 (requester cannot be fulfiller): acceptEscrow by the escrow's client fails,
\* so in every reachable state the worker of every escrow differs from its client.
C20_WorkerIsNotClient ==
  \A id \in Ids :
    /\ (escrows[id].client # Zero /\ escrows[id].state = "Pending") =>
         IF deployed = "AgentEscrow"
         THEN acceptEscrow(St, id, escrows[id].client).err # ""
         ELSE E_acceptEscrow(St, id, escrows[id].client).err # ""
    /\ escrows[id].client # Zero => escrows[id].worker # escrows[id].client

\* acceptEscrow called by sender on the deployed contract.
Accept(id, sender) ==
  IF deployed = "AgentEscrow" THEN acceptEscrow(St, id, sender)
  ELSE E_acceptEscrow(St, id, sender)

\* The callers admitted to accept escrow id: anyone in AgentEscrow, the worker
\* named at creation in Escrow.sol.
MayAccept(id) == IF deployed = "AgentEscrow" THEN Addrs ELSE {escrows[id].worker}

\* C21 (acceptance cutoff): acceptEscrow on a Pending escrow succeeds only while
\* now < deadline; from now = deadline on it reverts with DeadlinePassed and the
\* record stays as it was, Pending.
C21_AcceptanceCutoff ==
  \A id \in Ids :
    (escrows[id].client # Zero /\ escrows[id].state = "Pending" /\ now >= escrows[id].deadline)
      => \A sender \in MayAccept(id) : Accept(id, sender) = Revert(St, "DeadlinePassed")

\* The worker field in each state of an AgentEscrow record: empty while Pending;
\* a successful acceptEscrow on a Pending record sets it to the caller; on a
\* record that has been accepted every acceptEscrow reverts with InvalidState.
WorkerSetByAccept ==
  deployed = "AgentEscrow" =>
    \A id \in Ids, sender \in Addrs :
      /\ escrows[id].state = "Pending" => escrows[id].worker = Zero
      /\ (escrows[id].state = "Pending" /\ acceptEscrow(St, id, sender).err = "") =>
           acceptEscrow(St, id, sender).st.escrows[id]
             = [escrows[id] EXCEPT !.worker = sender, !.state = "Active"]
      /\ escrows[id].state # "Pending" =>
           acceptEscrow(St, id, sender) = Revert(St, "InvalidState")

\* A step keeps the worker of every AgentEscrow record that has one.
WorkerKept ==
  deployed = "AgentEscrow" =>
    \A id \in Ids : escrows[id].worker # Zero => escrows'[id].worker = escrows[id].worker

\* C22 (fulfiller assigned exactly once): in AgentEscrow the worker field is empty
\* while the escrow is Pending, is set to the caller by the first successful
\* acceptEscrow and is never changed afterwards; a second acceptEscrow by any
\* caller reverts with InvalidState and changes nothing.
C22_WorkerAssignedOnce == []WorkerSetByAccept /\ [][WorkerKept]_vars

\* C22 witness: an accepted escrow, its worker set, on which acceptEscrow by
\* another caller before the deadline is refused with InvalidState.
C22_Witness ==
  /\ deployed = "AgentEscrow"
  /\ \E id \in Ids :
       /\ escrows[id].state \in {"Active", "Submitted"}
       /\ escrows[id].worker = "worker"
       /\ now < escrows[id].deadline
       /\ acceptEscrow(St, id, Attacker).err = "InvalidState"

\* Evidence references a worker may hand in.
EvidenceRefs == {"h1", "h2"}

\* submitWork (submitDeliverable in Escrow.sol) called by sender.
Submit(id, sender, h) ==
  IF deployed = "AgentEscrow" THEN submitWork(St, id, sender, h)
  ELSE submitDeliverable(St, id, sender, h)

\* What submit does in each state of a record: on an Active record a submit by
\* the worker succeeds and writes the reference, the time and Submitted, nothing
\* else; by anyone else, or on a record in any other state, it fails and changes
\* nothing.
SubmitWritesEvidence ==
  \A id \in Ids, sender \in Addrs, h \in EvidenceRefs :
    IF escrows[id].state = "Active" /\ sender = escrows[id].worker
    THEN /\ Submit(id, sender, h).err = ""
         /\ Submit(id, sender, h).st.escrows[id]
              = [escrows[id] EXCEPT !.evidenceHash = h, !.submittedAt = now,
                                    !.state = "Submitted"]
    ELSE /\ Submit(id, sender, h).err
              \in {"OnlyWorker", "InvalidState", "NotAuthorized", "EscrowNotFound"}
         /\ Submit(id, sender, h).st = St

\* A step keeps the evidence reference and the submission time of every record
\* that has been submitted.
EvidenceKept ==
  \A id \in Ids :
    escrows[id].evidenceHash # Zero =>
      /\ escrows'[id].evidenceHash = escrows[id].evidenceHash
      /\ escrows'[id].submittedAt = escrows[id].submittedAt

\* C23 (submit records evidence once): a successful submit by the worker on an
\* Active escrow sets the evidence reference given, submittedAt = now and state
\* Submitted; afterwards no operation changes the reference or submittedAt, a
\* second submit fails, and submit fails while the escrow has not been accepted.
C23_EvidenceOnce == []SubmitWritesEvidence /\ [][EvidenceKept]_vars

\* C23 witness: a submitted escrow at a later time than its submission, on which
\* the worker's second submit is refused.
C23_Witness ==
  \E id \in Ids :
    /\ escrows[id].state \in {"Submitted", "Disputed"}
    /\ escrows[id].evidenceHash = "h1"
    /\ now > escrows[id].submittedAt
    /\ Submit(id, escrows[id].worker, "h2").err = "InvalidState"
    /\ deployed = "AgentEscrow"

\* cancel called by sender: Escrow.cancelEscrow; AgentEscrow has no such function
\* (and no Cancelled state), so the call reverts there.
Cancel(id, sender) ==
  IF deployed = "AgentEscrow" THEN Revert(St, "NoSuchFunction")
  ELSE cancelEscrow(St, id, sender, NoEnv)

\* C24 (cancel): cancel succeeds exactly when the escrow is Pending and the caller
\* is its client; it then refunds the whole amount, without a fee, to the client
\* and leaves the record Cancelled; by another caller it fails as unauthorized,
\* and in any other state with InvalidState, in both cases with nothing changed.
C24_Cancel ==
  \A id \in Ids, sender \in Addrs :
    escrows[id].client # Zero =>
      IF escrows[id].state = "Pending" /\ sender = escrows[id].client
      THEN /\ Cancel(id, sender).err = ""
           /\ Cancel(id, sender).st.escrows[id] = [escrows[id] EXCEPT !.state = "Cancelled"]
           /\ Paid(Cancel(id, sender).st, escrows[id].token, sender) = escrows[id].amount
           /\ Paid(Cancel(id, sender).st, escrows[id].token, Self) = 0 - escrows[id].amount
      ELSE IF escrows[id].state = "Pending"
           THEN Cancel(id, sender) = Revert(St, "NotAuthorized")
           ELSE Cancel(id, sender) = Revert(St, "InvalidState")

\* The identity that resolves disputes in the contract deployed.
ArbiterNow == IF deployed = "AgentEscrow" THEN arbitrator ELSE protocolArbiter

\* The two calls of the handover, on the current state.
HandoverCalls ==
  \A sender \in Addrs, n \in Nominees :
    /\ IF sender = arbitrator
       THEN /\ initiateArbitratorTransfer(St, sender, n).err = ""
            /\ initiateArbitratorTransfer(St, sender, n).st
                 = [St EXCEPT !.pendingArbitrator = n]
       ELSE initiateArbitratorTransfer(St, sender, n) = Revert(St, "OnlyArbitrator")
    /\ IF sender = pendingArbitrator
       THEN /\ acceptArbitratorTransfer(St, sender).err = ""
            /\ acceptArbitratorTransfer(St, sender).st
                 = [St EXCEPT !.arbitrator = sender, !.pendingArbitrator = Zero]
       ELSE acceptArbitratorTransfer(St, sender) = Revert(St, "OnlyArbitrator")

\* A step that changes the arbiter is the acceptance by the nominee of a
\* nomination made in an earlier step.
HandoverStep ==
  ArbiterNow' # ArbiterNow =>
    /\ pendingArbitrator \in Addrs
    /\ ArbiterNow' = pendingArbitrator
    /\ pendingArbitrator' = Zero
    /\ adminCalls' = adminCalls

\* C25 (two-phase arbiter handover): initiateArbitratorTransfer succeeds only for
\* the incumbent and only records the nominee; acceptArbitratorTransfer succeeds
\* only for the nominee, makes it the arbiter and clears the nomination; and the
\* arbiter changes in no other step, so never by a single call of one party.
C25_TwoPhaseHandover ==
  /\ [](deployed = "AgentEscrow" => HandoverCalls)
  /\ [][HandoverStep]_vars

\* Review windows a client may ask for at creation, in units of four hours; 0
\* asks for the configured default.
ReviewRequests == {0, 2}

\* A call of createEscrow that also passes a review window.  createEscrow takes
\* four arguments (token, amount, deadline, criteriaHash) and the contract has
\* no fallback function, so no function is selected and the call reverts.
CreateWithReview(sender, token, amount, deadline, criteriaHash, value, reviewPeriod) ==
  Revert(St, "NoSuchFunction")

\* C26 (per-escrow review window): wherever createEscrow succeeds, the same
\* creation with a review window succeeds too and leaves a Pending escrow whose
\* forceRelease becomes eligible that window (the default for 0) after
\* submission.
C26_PerEscrowReviewWindow ==
  deployed = "AgentEscrow" =>
    \A token \in {Zero, "usdc"}, r \in ReviewRequests :
      createEscrow(St, "client", token, 1000, now + 1, "h1",
                   IF token = Zero THEN 1000 ELSE 0, NoEnv).err = ""
        => /\ CreateWithReview("client", token, 1000, now + 1, "h1",
                               IF token = Zero THEN 1000 ELSE 0, r).err = ""
           /\ CreateWithReview("client", token, 1000, now + 1, "h1",
                               IF token = Zero THEN 1000 ELSE 0, r)
                .st.escrows[escrowCount].state = "Pending"

\* forceRelease of escrow id would be refused now because its review window is
\* still running.
InReview(id) == ForceRelease(id, "worker").err = "ReviewPeriodActive"

\* A step that leaves the clock and a Submitted escrow alone leaves the answer
\* of forceRelease on it alone.
WindowKept ==
  \A id \in Ids :
    (now' = now /\ escrows[id].state = "Submitted" /\ escrows'[id] = escrows[id])
      => (InReview(id)' <=> InReview(id))

\* C27 (review window frozen at creation): once an escrow is created, no change
\* of the configured default review period (setTimeouts) makes forceRelease on
\* it eligible earlier or later.
C27_ReviewWindowFrozen == [][WindowKept]_vars

\* ------------------------------------------------- several escrows at once
\* The ledger with every id of Ids in use: creation goes on until the records
\* are full, each by the client with an honest asset, and the escrows then run
\* their lifecycles side by side.
CreateMore ==
  /\ deployed = "AgentEscrow"
  /\ escrowCount \in Ids
  /\ \E token \in {Zero, "usdc"} :
       Done(createEscrow(St, "client", token, 1000, now + 1, "h1",
                         IF token = Zero THEN 1000 ELSE 0, NoEnv))

E_CreateMore ==
  /\ deployed = "Escrow"
  /\ escrowCount \in Ids
  /\ \E worker \in {"worker", Attacker} :
       Done(E_createEscrow(St, "client", worker, now + 1, "h1", 1000))

CreateMoreERC20 ==
  /\ deployed = "Escrow"
  /\ escrowCount \in Ids
  /\ Done(createEscrowERC20(St, "client", "worker", "usdc", 1000, now + 1, "h1", NoEnv))

NextMany ==
  \/ Tick
  \/ CreateMore
  \/ AcceptEscrow
  \/ SubmitWork
  \/ Release
  \/ Dispute
  \/ AutoRelease
  \/ Resolve
  \/ E_CreateMore
  \/ CreateMoreERC20
  \/ E_AcceptEscrow
  \/ SubmitDeliverable
  \/ ReleasePayment
  \/ E_Dispute
  \/ ResolveDispute
  \/ CancelEscrow
  \/ ClaimExpiredEscrow

SpecMany == Init /\ [][NextMany]_vars

\* The results of the operations that can be called on escrow id in the current
\* state, each as a call of its own (a call made from a callback is another
\* operation, on the id it names).
RunsOn(id) ==
  UNION {
    IF deployed = "AgentEscrow"
    THEN {acceptEscrow(St, id, sender), submitWork(St, id, sender, "h1"),
          release(St, id, sender, NoEnv), autoRelease(St, id, sender, NoEnv)}
         \cup {dispute(St, id, sender, value, NoEnv) : value \in AffordableValues(id, sender)}
         \cup {resolve(St, id, sender, pct, NoEnv) : pct \in Pcts}
    ELSE {E_acceptEscrow(St, id, sender), submitDeliverable(St, id, sender, "h1"),
          releasePayment(St, id, sender, NoEnv), E_dispute(St, id, sender),
          cancelEscrow(St, id, sender, NoEnv), claimExpiredEscrow(St, id, sender, NoEnv)}
         \cup {resolveDispute(St, id, sender, pct, NoEnv) : pct \in Pcts}
    : sender \in Addrs}

\* The results of the creations a client can make in the current state.
Creations ==
  IF deployed = "AgentEscrow"
  THEN {createEscrow(St, "client", token, 1000, now + 1, "h1",
                     IF token = Zero THEN 1000 ELSE 0, NoEnv) : token \in {Zero, "usdc"}}
  ELSE {E_createEscrow(St, "client", "worker", now + 1, "h1", 1000),
        createEscrowERC20(St, "client", "worker", "usdc", 1000, now + 1, "h1", NoEnv)}

\* The ids whose record a call changed.
Written(r) == {i \in Ids : r.st.escrows[i] # escrows[i]}

\* C28 (unique ids and isolation): a successful create writes exactly one
\* record, under an id no earlier create returned, also when the same client
\* creates twice at the same time; and an operation on one escrow id changes no
\* record but that of its id.
C28_UniqueIdsIsolation ==
  /\ \A id \in Ids : \A r \in RunsOn(id) : Written(r) \subseteq {id}
  /\ escrowCount \in Ids =>
       \A r \in Creations :
         r.err = "" =>
           /\ Written(r) = {escrowCount}
           /\ escrows[escrowCount].client = Zero
           /\ r.st.escrows[escrowCount].client = "client"
           /\ r.st.escrowCount = escrowCount + 1

C28_Witness ==
  /\ escrowCount = 2
  /\ escrows[0].client = "client"
  /\ escrows[1].client = "client"
  /\ escrows[0].createdAt = escrows[1].createdAt
  /\ escrows[0].token = escrows[1].token
  /\ escrows[0].state = "Resolved"
  /\ escrows[1].state = "Pending"

\* The fields of a record that creation sets for good.
CreationFields(e) == <<e.client, e.token, e.amount, e.deadline, e.criteriaHash, e.createdAt>>

\* A step leaves the creation-time fields of every existing escrow alone.
CreationFieldsKept ==
  \A id \in Ids :
    escrows[id].client # Zero => CreationFields(escrows'[id]) = CreationFields(escrows[id])

\* C29 (creation-time fields are immutable): once an escrow is created, no
\* operation on it or on the configuration changes its client, token, amount,
\* deadline, criteriaHash or createdAt.
C29_CreationFieldsImmutable == [][CreationFieldsKept]_vars

C29_Witness ==
  \E id \in Ids :
    /\ Len(hist[id]) = 4
    /\ escrows[id].state = "Resolved"
    /\ adminCalls = 1
    /\ minEscrowAmount > escrows[id].amount
    /\ CreationFields(escrows[id]) = <<"client", "usdc", 1000, 1, "h1", 0>>

\* The four configuration calls by sender on the current state: each succeeds
\* for the arbitrator and writes the values given and nothing else, and reverts
\* with OnlyArbitrator for everyone else.
ConfigCalls(sender) ==
  /\ \A f \in FeeInputs :
       setFees(St, sender, f[1], f[2]) =
         IF sender = arbitrator
         THEN Ctx([St EXCEPT !.protocolFeeBps = f[1], !.disputeFeeBps = f[2]])
         ELSE Revert(St, "OnlyArbitrator")
  /\ \A l \in LimitInputs :
       setLimits(St, sender, l[1], l[2]) =
         IF sender = arbitrator
         THEN Ctx([St EXCEPT !.minEscrowAmount = l[1], !.maxEscrowAmount = l[2]])
         ELSE Revert(St, "OnlyArbitrator")
  /\ \A t \in TimeoutInputs :
       setTimeouts(St, sender, t[1], t[2]) =
         IF sender = arbitrator
         THEN Ctx([St EXCEPT !.clientReviewPeriod = t[1], !.arbitrationTimeout = t[2]])
         ELSE Revert(St, "OnlyArbitrator")
  /\ \A n \in Nominees :
       initiateArbitratorTransfer(St, sender, n) =
         IF sender = arbitrator
         THEN Ctx([St EXCEPT !.pendingArbitrator = n])
         ELSE Revert(St, "OnlyArbitrator")

\* The arbitrator the ledger was deployed with.
FirstArbitrator == "arb"

\* C30 (configuration authority): setFees, setLimits, setTimeouts and
\* initiateArbitratorTransfer succeed only for the current arbitrator and then
\* set exactly the values given; for any other caller they revert with
\* OnlyArbitrator, nothing changed; and once a handover is complete the former
\* arbitrator is such another caller, for these calls and for resolve.
C30_ConfigAuthority ==
  deployed = "AgentEscrow" =>
    /\ \A sender \in Addrs : ConfigCalls(sender)
    /\ arbitrator # FirstArbitrator =>
         \A id \in Ids, pct \in Pcts :
           resolve(St, id, FirstArbitrator, pct, NoEnv) = Revert(St, "OnlyArbitrator")

C30_Witness ==
  /\ deployed = "AgentEscrow"
  /\ arbitrator = "worker"
  /\ pendingArbitrator = Zero
  /\ \E id \in Ids : escrows[id].state = "Disputed"
  /\ setFees(St, FirstArbitrator, 100, 50).err = "OnlyArbitrator"
  /\ setFees(St, "worker", 100, 50).st.disputeFeeBps = 50

\* An id that no create has returned: it has no record.
UnknownId(id) == escrows[id].client = Zero /\ hist[id] = <<>>

\* C31 (unknown ids): on an id that no create returned, accept, submit, release,
\* autoRelease, dispute, resolve and cancel all fail, writing no record and
\* moving no funds, and accept fails with the error that says the escrow was
\* not found.
C31_UnknownIds ==
  \A id \in Ids :
    UnknownId(id) =>
      /\ \A r \in RunsOn(id) : Failed(r)
      /\ \A sender \in Addrs :
           /\ Failed(Cancel(id, sender))
           /\ Accept(id, sender) = Revert(St, "EscrowNotFound")

\* floor(amount * 500 / 10000), the arbiter's fee of Escrow.resolveDispute.
ArbiterFee(id) == (escrows[id].amount * ARBITER_FEE_BPS) \div BPS_DENOMINATOR

\* floor((amount - arbiterFee) * workerPct / 100).
E_WorkerAmount(id, pct) == ((escrows[id].amount - ArbiterFee(id)) * pct) \div 100

\* The asset's ledger after the fee went to the escrow's arbiter, the worker's
\* amount to the worker and the rest to the client.
E_ResolvedLedger(id, pct) ==
  Move(Move(Move(St, escrows[id].token, Self, escrows[id].arbiter, ArbiterFee(id)),
            escrows[id].token, Self, escrows[id].worker, E_WorkerAmount(id, pct)),
       escrows[id].token, Self, escrows[id].client,
       escrows[id].amount - ArbiterFee(id) - E_WorkerAmount(id, pct)).balance[escrows[id].token]

\* C32 (arbiter fee of Escrow.sol): resolveDispute succeeds exactly for the
\* protocol arbiter on a Disputed escrow with workerPct <= 100; it then pays
\* floor(amount * 500 / 10000) to the escrow's arbiter, floor((amount - fee) *
\* workerPct / 100) to the worker and the rest to the client, amount in all; and
\* releasePayment and claimExpiredEscrow pay the worker the whole amount, no
\* fee.  Stated for escrows in the native asset or an honest token.
C32_ArbiterFee ==
  deployed = "Escrow" =>
    \A id \in Ids :
      (escrows[id].client # Zero /\ escrows[id].token # Attacker) =>
        \A sender \in Addrs :
          /\ \A pct \in Pcts :
               IF sender = protocolArbiter /\ escrows[id].state = "Disputed" /\ pct <= 100
               THEN /\ resolveDispute(St, id, sender, pct, NoEnv).err = ""
                    /\ resolveDispute(St, id, sender, pct, NoEnv).st.balance[escrows[id].token]
                         = E_ResolvedLedger(id, pct)
                    /\ Paid(resolveDispute(St, id, sender, pct, NoEnv).st, escrows[id].token, Self)
                         = 0 - escrows[id].amount
                    /\ ArbiterFee(id) >= 0
                    /\ E_WorkerAmount(id, pct) >= 0
                    /\ escrows[id].amount - ArbiterFee(id) - E_WorkerAmount(id, pct) >= 0
               ELSE Failed(resolveDispute(St, id, sender, pct, NoEnv))
          /\ releasePayment(St, id, sender, NoEnv).err = "" =>
               releasePayment(St, id, sender, NoEnv).st.balance[escrows[id].token]
                 = Move(St, escrows[id].token, Self, escrows[id].worker,
                        escrows[id].amount).balance[escrows[id].token]
          /\ claimExpiredEscrow(St, id, sender, NoEnv).err = "" =>
               claimExpiredEscrow(St, id, sender, NoEnv).st.balance[escrows[id].token]
                 = Move(St, escrows[id].token, Self, escrows[id].worker,
                        escrows[id].amount).balance[escrows[id].token]

\* C32 witness: a disputed escrow of 1000 in the native asset, which resolved at
\* 49 pays the arbiter 50, the worker 465 and the client 485.
C32_Witness ==
  /\ deployed = "Escrow"
  /\ \E id \in Ids :
       /\ escrows[id].state = "Disputed"
       /\ escrows[id].amount = 1000
       /\ escrows[id].token = Zero
       /\ ArbiterFee(id) = 50
       /\ E_WorkerAmount(id, 49) = 465
       /\ Paid(resolveDispute(St, id, protocolArbiter, 49, NoEnv).st, Zero, escrows[id].client) = 485
       /\ Paid(resolveDispute(St, id, protocolArbiter, 49, NoEnv).st, Zero, escrows[id].arbiter) = 50

\* ------------------------------------------------------ the library route
\* What a request to publish may carry.
FromInputs == {Null, "0xab", "0xAB", "0xCD", "0xEf"}
LicenseInputs == {Null, "gpl", "public-domain", "attribution"}
SummaryInputs == {Null, "s1"}

\* The escrow ledger plays no part in the index.
LedgerIdle ==
  UNCHANGED <<deployed, escrows, balance, arbitrator, pendingArbitrator, protocolFeeBps,
              disputeFeeBps, clientReviewPeriod, arbitrationTimeout, minEscrowAmount,
              maxEscrowAmount, escrowCount, protocolArbiter, owner, status, hist,
              feePaid, disbursed, adminCalls>>

\* The indexer records an escrow it saw on the chain, or its new state.
UpsertTask ==
  /\ \E id \in TaskIds, client \in TaskClients, worker \in TaskWorkers,
        state \in TaskStates, d \in {Null, "d1"} :
       tasks' = upsertTask(tasks, id, client, worker, state, d)
  /\ UNCHANGED now
  /\ LedgerIdle

UpdateTaskState ==
  /\ \E id \in TaskIds, state \in TaskStates, worker \in TaskWorkers :
       tasks' = updateTaskState(tasks, id, state, worker)
  /\ UNCHANGED now
  /\ LedgerIdle

\* A request to publish that is answered with success.
Publish ==
  /\ \E id \in TaskIds, from \in FromInputs, license \in LicenseInputs,
        summary \in SummaryInputs :
       /\ publish(tasks, id, from, license, summary, now).code = 200
       /\ tasks' = publish(tasks, id, from, license, summary, now).tasks
  /\ UNCHANGED now
  /\ LedgerIdle

NextLibrary ==
  \/ Tick
  \/ UpsertTask
  \/ UpdateTaskState
  \/ Publish

\* The index starts empty, beside a ledger that is left alone.
InitLibrary == Init /\ deployed = "AgentEscrow"

SpecLibrary == InitLibrary /\ [][NextLibrary]_vars

\* The columns that publishing writes.
Published(row) == <<row.is_public, row.license, row.deliverable_summary, row.made_public_at>>

\* from is the task's client or worker, whatever the case of the letters.
IsParty(row, from) ==
  /\ from # Null
  /\ \/ (row.client # Null /\ ToLowerCase(row.client) = ToLowerCase(from))
     \/ (row.worker # Null /\ ToLowerCase(row.worker) = ToLowerCase(from))

\* A published row keeps what publishing wrote.
PublishedKept ==
  \A id \in TaskIds :
    tasks[id].is_public => Published(tasks'[id]) = Published(tasks[id])

\* C33 as claimed: a task becomes public only if it exists, is Resolved and the
\* caller is its client or worker, and every further publish of a public task
\* is answered 'Already published'.
C33_PublishGuardAsClaimed ==
  \A id \in TaskIds, from \in FromInputs, license \in LicenseInputs, summary \in SummaryInputs :
    /\ publish(tasks, id, from, license, summary, now).code = 200 =>
         (tasks[id].present /\ tasks[id].state = "Resolved" /\ IsParty(tasks[id], from))
    /\ tasks[id].is_public =>
         publish(tasks, id, from, license, summary, now).error = "Already published"

\* The guard of the route: a request marks the task public only if the task
\* exists, is Resolved, is not public yet and the caller is a party; a request
\* on a public task changes nothing, and is answered 'Already published' when
\* it passes the checks made before (from given, license valid, task
\* Resolved, caller a party).
PublishGuard ==
  \A id \in TaskIds, from \in FromInputs, license \in LicenseInputs, summary \in SummaryInputs :
    /\ publish(tasks, id, from, license, summary, now).code = 200 =>
         /\ tasks[id].present /\ tasks[id].state = "Resolved" /\ IsParty(tasks[id], from)
         /\ ~tasks[id].is_public
         /\ publish(tasks, id, from, license, summary, now).tasks[id].is_public
    /\ tasks[id].is_public =>
         /\ publish(tasks, id, from, license, summary, now).code # 200
         /\ publish(tasks, id, from, license, summary, now).tasks = tasks
         /\ (license \in Licenses /\ tasks[id].state = "Resolved" /\ IsParty(tasks[id], from))
              => publish(tasks, id, from, license, summary, now).error = "Already published"

\* C33 (library publish guard), amended: the guard above holds in every state,
\* and no step changes is_public, license, deliverable_summary or
\* made_public_at of a task that is public.
C33_PublishGuard == []PublishGuard /\ [][PublishedKept]_vars

\* C33 witness: a task published at time 0, which its worker and its client,
\* written in capitals, later try to publish again under another license.
C33_Witness ==
  /\ now > 0
  /\ tasks["e1"].is_public
  /\ tasks["e1"].made_public_at = 0
  /\ tasks["e1"].license = "public-domain"
  /\ tasks["e1"].state = "Resolved"
  /\ tasks["e1"].worker = "0xCd"
  /\ publish(tasks, "e1", "0xCD", "attribution", "s1", now).error = "Already published"
  /\ publish(tasks, "e1", "0xAB", "attribution", "s1", now).tasks = tasks
\* ------------------------------------------------------------ live fee reads
\* The last external call of run r pays the arbitrator `fee`.
FeeCharged(r, fee) ==
  fee > 0 => /\ Len(r.log) > 0
             /\ r.log[Len(r.log)].to = arbitrator
             /\ r.log[Len(r.log)].amount = fee

\* The call before it awards `fee` to the party the percentage favours.
FeeAwarded(r, id, pct, fee) ==
  (fee > 0 /\ ProtocolFeeNow(id) > 0) =>
    /\ Len(r.log) > 1
    /\ r.log[Len(r.log) - 1].to = Awardee(id, pct)
    /\ r.log[Len(r.log) - 1].amount = fee

\* The fee a successful dispute demanded: the value sent along for the native
\* asset, the amount of the transferFrom for a token.
FeeDemanded(r, id, value, fee) ==
  IF escrows[id].token = Zero THEN value = fee
  ELSE /\ Len(r.log) = 1
       /\ r.log[1].kind = "transferFrom"
       /\ r.log[1].amount = fee

Owed(id, asset) ==
  IF escrows[id].token = asset
       /\ escrows[id].state \in {"Pending", "Active", "Submitted", "Disputed"}
       /\ escrows[id].client # Zero
  THEN escrows[id].amount + (IF escrows[id].state = "Disputed" THEN feePaid[id] ELSE 0)
  ELSE 0

RECURSIVE OwedUpTo(_, _)
\* The sum of what the ledger owes the escrows 0..n in `asset`.
OwedUpTo(n, asset) ==
  IF n < 0 THEN 0 ELSE Owed(n, asset) + OwedUpTo(n - 1, asset)

\* C35 (solvency): in every reachable state and for every asset the ledger holds
\* at least the sum of the amounts of its Pending, Active, Submitted and Disputed
\* escrows plus the dispute fees collected for its Disputed escrows.
C35_Solvency ==
  \A asset \in Tokens : Custody(St, asset) >= OwedUpTo(MaxEscrows, asset)

\* ------------------------------------------------------- no locked funds
\* The storage once the arbitrator has set the fee rates back to the rates the
\* ledger was deployed with (Escrow.sol has constant rates).
DefaultRates ==
  IF deployed = "AgentEscrow"
  THEN setFees(St, arbitrator, ProtocolFeeBpsInit, DisputeFeeBpsInit).st
  ELSE St

\* The calls the client, the worker, a new acceptor and the arbiter can make on
\* escrow id, from storage S.
PartyCalls(S, id) ==
  IF deployed = "AgentEscrow"
  THEN {acceptEscrow(S, id, a) : a \in Acceptors}
         \cup {submitWork(S, id, S.escrows[id].worker, "h1"),
               release(S, id, S.escrows[id].client, NoEnv),
               dispute(S, id, S.escrows[id].client,
                       IF S.escrows[id].token = Zero
                       THEN (S.escrows[id].amount * S.disputeFeeBps) \div 10000 ELSE 0,
                       NoEnv),
               autoRelease(S, id, S.escrows[id].worker, NoEnv)}
         \cup {resolve(S, id, S.arbitrator, pct, NoEnv) : pct \in ValidPcts}
  ELSE {E_acceptEscrow(S, id, S.escrows[id].worker),
        submitDeliverable(S, id, S.escrows[id].worker, "h1"),
        releasePayment(S, id, S.escrows[id].client, NoEnv),
        E_dispute(S, id, S.escrows[id].client),
        cancelEscrow(S, id, S.escrows[id].client, NoEnv),
        claimExpiredEscrow(S, id, S.escrows[id].worker, NoEnv)}
         \cup {resolveDispute(S, id, S.protocolArbiter, pct, NoEnv) : pct \in ValidPcts}

\* Some call by a party succeeds on escrow id and moves it to another state.
CanAdvance(id) ==
  \E r \in PartyCalls(St, id) \cup PartyCalls(DefaultRates, id) :
    r.err = "" /\ r.st.escrows[id].state # escrows[id].state

\* C36 (no permanently locked funds): every escrow that is not in a terminal state
\* can be advanced by its parties, so that a sequence of their operations brings it
\* to a terminal state; in particular a Pending escrow whose deadline has passed
\* can be brought to a terminal state that returns the funds to the client.
C36_NoLockedFunds ==
  \A id \in Ids :
    (escrows[id].client # Zero /\ escrows[id].state \notin Terminal) =>
      /\ CanAdvance(id)
      /\ (escrows[id].state = "Pending" /\ now > escrows[id].deadline) =>
           \E r \in PartyCalls(St, id) :
             /\ r.err = ""
             /\ r.st.escrows[id].state \in Terminal
             /\ Paid(r.st, escrows[id].token, escrows[id].client) = escrows[id].amount

\* ------------------------------------------------- leaving Disputed
\* A run of resolve by the current arbiter on escrow id.
ArbiterRun(id, pct, env) ==
  IF deployed = "AgentEscrow" THEN resolve(St, id, arbitrator, pct, env)
  ELSE resolveDispute(St, id, protocolArbiter, pct, env)

\* The step is a successful resolve of escrow id by the current arbiter: it ends
\* in the storage one of the arbiter's runs ends in.
ResolvedByArbiter(id) ==
  /\ escrows'[id].state = "Resolved"
  /\ \E pct \in ValidPcts :
       /\ deployed = "AgentEscrow" => escrows'[id].completionPct = pct
       /\ \E env \in EnvsFor(Involved(St, id), 4) :
            /\ St' = ArbiterRun(id, pct, env).st
            /\ ArbiterRun(id, pct, env).err = ""

\* The same when the arbiter is the attacker's contract and resolves escrow id from
\* inside its callback, during an operation on another escrow.
ResolvedInCallback(id) ==
  /\ ArbiterNow = Attacker
  /\ \E pct \in ValidPcts :
       /\ escrows'[id] = ArbiterRun(id, pct, NoEnv).st.escrows[id]
       /\ ArbiterRun(id, pct, NoEnv).err = ""

\* A step leaves the record of a Disputed escrow as it is, and the ledger's holding
\* in its asset too unless the step is an operation on another escrow, or it is a
\* resolve by the current arbiter.
DisputedKept ==
  \A id \in Ids :
    escrows[id].state = "Disputed" =>
      \/ /\ escrows'[id] = escrows[id]
         /\ escrows' = escrows =>
              balance'[escrows[id].token][Self] = balance[escrows[id].token][Self]
      \/ ResolvedByArbiter(id)
      \/ ResolvedInCallback(id)

\* Every call on a Disputed escrow other than resolve by the current arbiter
\* fails, whoever makes it and whatever the time.
DisputedDenies ==
  \A id \in Ids :
    escrows[id].state = "Disputed" =>
      \A sender \in Addrs :
        /\ Failed(Accept(id, sender))
        /\ Failed(Submit(id, sender, "h1"))
        /\ Failed(ForceRelease(id, sender))
        /\ Failed(Cancel(id, sender))
        /\ IF deployed = "AgentEscrow"
           THEN /\ Failed(release(St, id, sender, NoEnv))
                /\ \A value \in {0, DisputeFeeNow(id)} :
                     Failed(dispute(St, id, sender, value, NoEnv))
                /\ sender # arbitrator =>
                     \A pct \in Pcts : Failed(resolve(St, id, sender, pct, NoEnv))
           ELSE /\ Failed(releasePayment(St, id, sender, NoEnv))
                /\ Failed(E_dispute(St, id, sender))
                /\ sender # protocolArbiter =>
                     \A pct \in Pcts : Failed(resolveDispute(St, id, sender, pct, NoEnv))

\* C37 (leaving Disputed): a Disputed escrow changes state, and the funds held for
\* it move, only through a successful resolve by the current arbiter; every other
\* operation fails on it for every caller, and neither the passage of time (the
\* configured arbitrationTimeout included) nor a configuration call changes it.
C37_DisputedOnlyResolve == []DisputedDenies /\ [][DisputedKept]_vars

\* C37 witness: a Disputed escrow still Disputed when arbitrationTimeout has passed
\* since its submission, which the current arbiter can resolve.
C37_Witness ==
  \E id \in Ids :
    /\ escrows[id].state = "Disputed"
    /\ now >= escrows[id].submittedAt + arbitrationTimeout
    /\ now > escrows[id].submittedAt
    /\ \E pct \in ValidPcts : ArbiterRun(id, pct, NoEnv).err = ""

\* ------------------------------------------------------ payable fee rates
\* C38 (fee rates stay payable): in every reachable configuration protocolFeeBps
\* <= 10000, so that the protocol fee never exceeds the amount and release,
\* autoRelease and resolve never fail on the subtraction amount - protocolFee.
C38_FeeRatesPayable ==
  /\ protocolFeeBps <= 10000
  /\ deployed = "AgentEscrow" =>
       \A id \in Ids :
         /\ ProtocolFeeNow(id) <= escrows[id].amount
         /\ escrows[id].state = "Submitted" =>
              /\ release(St, id, escrows[id].client, NoEnv).err # "Panic"
              /\ autoRelease(St, id, escrows[id].worker, NoEnv).err # "Panic"
         /\ escrows[id].state = "Disputed" =>
              \A pct \in ValidPcts : resolve(St, id, arbitrator, pct, NoEnv).err # "Panic"

\* ------------------------------------------------------- well-formed records
\* submitWork has written submittedAt and evidenceHash of escrow id: the record
\* has been given the state Submitted.  (Time 0 of the model is the instant of
\* deployment, so a submittedAt of 0 can be a written one.)
SubmissionWritten(id) == \E k \in DOMAIN hist[id] : hist[id][k] = "Submitted"

\* The fields of the record of escrow id agree with its state.
WellFormed(id) ==
  /\ escrows[id].worker = Zero <=> escrows[id].state \in {"Pending", "Cancelled"}
  /\ IF escrows[id].state \in {"Pending", "Active"}
     THEN escrows[id].submittedAt = 0 /\ escrows[id].evidenceHash = Zero
     ELSE SubmissionWritten(id) /\ escrows[id].evidenceHash # Zero
  /\ (escrows[id].outcome = "None" /\ escrows[id].completionPct = 0)
       <=> escrows[id].state # "Resolved"
  /\ escrows[id].outcome = "FullRelease" => escrows[id].completionPct = 100
  /\ escrows[id].outcome = "FullRefund" => escrows[id].completionPct = 0

\* C39 (record well-formedness): in every reachable state of AgentEscrow, for every
\* escrow, the worker is unset exactly when the state is Pending; submittedAt and
\* evidenceHash are unset exactly when it is Pending or Active; outcome is None and
\* completionPct is 0 exactly when it is not Resolved; FullRelease goes with
\* completionPct 100 and FullRefund with completionPct 0.
C39_WellFormed ==
  deployed = "AgentEscrow" =>
    \A id \in Ids : escrows[id].client # Zero => WellFormed(id)

\* ------------------------------------------------- nomination overwrite
\* The handover with repeated nominations: the incumbent nominates up to
\* MaxNominations times, each time somebody other than the outstanding nominee,
\* while escrows are created and time passes.  adminCalls counts the nominations.
Nominate ==
  /\ deployed = "AgentEscrow"
  /\ adminCalls < MaxNominations
  /\ \E sender \in Addrs, n \in Nominees :
       /\ n # pendingArbitrator
       /\ initiateArbitratorTransfer(St, sender, n).err = ""
       /\ Commit(initiateArbitratorTransfer(St, sender, n).st)
       /\ adminCalls' = adminCalls + 1

NextHandover == Tick \/ CreateEscrow \/ AcceptEscrow \/ Nominate \/ AcceptArbitratorTransfer

SpecHandover == InitLibrary /\ [][NextHandover]_vars

\* acceptArbitratorTransfer by sender is refused and changes nothing.
AcceptRefused(sender) == acceptArbitratorTransfer(St, sender) = Revert(St, "OnlyArbitrator")

\* acceptArbitratorTransfer succeeds for the outstanding nominee, whom it makes the
\* arbitrator, and is refused for every other caller; with no nomination
\* outstanding it is refused for every caller.
OnlyNomineeAccepts ==
  \A sender \in Addrs :
    IF sender = pendingArbitrator
    THEN /\ acceptArbitratorTransfer(St, sender).err = ""
         /\ acceptArbitratorTransfer(St, sender).st.arbitrator = sender
    ELSE AcceptRefused(sender)

\* A step that replaces the outstanding nominee x by another nominee leaves x
\* refused and the new nominee alone able to accept; a step that changes the
\* arbitrator leaves no nomination outstanding, so that every caller is refused.
NominationStep ==
  /\ \A x \in Addrs :
       (pendingArbitrator = x /\ pendingArbitrator' \notin {Zero, x}) =>
         /\ arbitrator' = arbitrator
         /\ AcceptRefused(x)'
         /\ OnlyNomineeAccepts'
  /\ arbitrator' # arbitrator =>
       /\ pendingArbitrator' = Zero
       /\ \A sender \in Addrs : AcceptRefused(sender)'

\* C40 (nomination overwrite): when the incumbent nominates X and then Y before X
\* accepts, acceptArbitratorTransfer succeeds for Y alone and fails for X; when no
\* nomination is outstanding, initially and after a completed handover, it fails
\* for every caller.
C40_NominationOverwrite ==
  /\ [](deployed = "AgentEscrow" => OnlyNomineeAccepts)
  /\ [][NominationStep]_vars

\* C40 witness: the first arbitrator has nominated twice without an acceptance in
\* between (nominees differ from call to call, and the arbitrator is still the
\* first one), the second time the worker: the attacker's contract, nominated
\* first, is refused and the worker can accept.
C40_Witness ==
  /\ adminCalls = 2
  /\ arbitrator = FirstArbitrator
  /\ pendingArbitrator = "worker"
  /\ AcceptRefused(Attacker)
  /\ acceptArbitratorTransfer(St, "worker").err = ""
  /\ acceptArbitratorTransfer(St, "worker").st.arbitrator = "worker"

====
